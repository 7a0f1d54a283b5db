----------------------------- MODULE ParserProofs -----------------------------
(***************************************************************************)
(* Parse (Parser) never panics and loses nothing, whatever the source, and *)
(* the cursors of its tree say where their texts stand.                    *)
(*                                                                         *)
(* It never panics because what the builder is asked to do is balanced.    *)
(* What is still to do (todo) is a stack of what functions of the parser   *)
(* have still to do.  Each function is plain: it finishes the nodes it     *)
(* starts, and wraps what follows its checkpoints, in order.  The members  *)
(* of a body contain bodies again, so that what is plain is defined by the *)
(* sets that are closed under the parts of what is in them; there is a set *)
(* that has t iff t is plain.  In the same way, what is to do fits the     *)
(* frames of the builder: the rest of a function, then the end of its node *)
(* or of what it wraps, then what fits the frames below.                   *)
(*                                                                         *)
(* ImportName returns from its middle.  ReturnEarly drops what is left of  *)
(* it up to the end of its node, so that its parts are not plain by        *)
(* themselves, and are listed.                                             *)
(***************************************************************************)
EXTENDS Parser, ListFacts

Atoms == {"lex", "bump", "trivia", "label", "member"}

\* A loop, wherever its last round began.
Loops(c, body, p) ==
  {[op |-> "while", class |-> c, body |-> body, last |-> p],
   [op |-> "until", class |-> c, body |-> body, last |-> p]}

\* ImportName may return early.  What it has still to do then is one of
\* these, after something that is plain.
ImportStep == If("NAME", NameSegment, <<Opt("*", Star), Return>>)
ImportSegments(p) == [op |-> "while", class |-> "::", body |-> <<Bump, ImportStep>>, last |-> p]
ImportStart == If("NAME", NameSegment \o <<ImportSegments(0)>>, <<Opt("*", Star)>>)
ImportRest(v) ==
  \/ v = <<ImportStart>>
  \/ \E p : v \in {<<ImportSegments(p)>>, <<ImportStep, ImportSegments(p)>>, <<Return, ImportSegments(p)>>}

\* The parts of x are in P.
Within(P, x) ==
  \/ x.op \in Atoms
  \/ \E c : \E yes, no \in P : x = If(c, yes, no)
  \/ \E c, p : \E body \in P : x \in Loops(c, body, p)

\* A sequence with u between x and y.
Enclosed(x, u, y, v) == Cons(x, u \o Cons(y, v))

\* t is empty, or one of these with its parts in P and what follows in P: an
\* instruction that leaves the frames alone, a node, or what is wrapped.
Begins(P, t) ==
  \/ t = <<>>
  \/ \E x : \E v \in P : Within(P, x) /\ t = Cons(x, v)
  \/ \E kind, u : \E v \in P :
       (u \in P \/ ImportRest(u)) /\ t = Enclosed(Open(kind), u, Close, v)
  \/ \E u, v \in P : t = Enclosed(Mark, u, Wrap, v)

Closed(P) == \A t \in P : IsSequence(t) /\ Begins(P, t)
Plain(t) == \E P : Closed(P) /\ t \in P

\* What a plain sequence may begin with.
PlainOne(x) ==
  \/ x.op \in Atoms
  \/ \E c, yes, no : Plain(yes) /\ Plain(no) /\ x = If(c, yes, no)
  \/ \E c, body, p : Plain(body) /\ x \in Loops(c, body, p)
-----------------------------------------------------------------------------
\* What has its parts in a set has them in a larger one.
LEMMA WithinMore ==
  ASSUME NEW P, NEW R, P \subseteq R, NEW x, Within(P, x)
  PROVE  Within(R, x)
BY DEF Within

\* In the same way for what follows.
LEMMA BeginsMore ==
  ASSUME NEW P, NEW R, P \subseteq R, NEW t, Begins(P, t)
  PROVE  Begins(R, t)
<1>1. \A x : Within(P, x) => Within(R, x)
  BY WithinMore
<1> QED BY <1>1 DEF Begins

\* Two closed sets are one.
LEMMA ClosedUnion ==
  ASSUME NEW P, NEW R, Closed(P), Closed(R)
  PROVE  Closed(P \cup R)
<1>1. ASSUME NEW t \in P \cup R
      PROVE  IsSequence(t) /\ Begins(P \cup R, t)
  <2>1. CASE t \in P
    BY <2>1, BeginsMore DEF Closed
  <2>2. CASE t \in R
    BY <2>2, BeginsMore DEF Closed
  <2> QED BY <2>1, <2>2
<1> QED BY <1>1 DEF Closed

\* What has its parts in a closed set is plain.
LEMMA ClosedWith ==
  ASSUME NEW P, Closed(P), NEW t, IsSequence(t), Begins(P, t)
  PROVE  Plain(t)
<1> DEFINE W == P \cup {t}
<1>1. ASSUME NEW s \in W
      PROVE  IsSequence(s) /\ Begins(W, s)
  BY BeginsMore DEF Closed
<1>2. Closed(W)
  BY <1>1 DEF Closed
<1> QED BY <1>2 DEF Plain

\* Doing nothing is plain.
LEMMA PlainEmpty == Plain(<<>>)
<1>1. Closed({<<>>})
  BY EmptyIsSequence DEF Closed, Begins
<1> QED BY <1>1 DEF Plain

\* What is plain is a sequence.
LEMMA PlainSequence ==
  ASSUME NEW t, Plain(t)
  PROVE  IsSequence(t)
BY DEF Plain, Closed

\* So is what is left of ImportName.
LEMMA ImportRestSequence ==
  ASSUME NEW u, ImportRest(u)
  PROVE  IsSequence(u)
<1>1. \A x : IsSequence(<<x>>)
  BY SingleFacts
<1>2. \A x, y : IsSequence(<<x, y>>)
  <2> TAKE x, y
  <2>1. <<x, y>> \in Seq({x, y})
    OBVIOUS
  <2> QED BY <2>1, SeqIsSequence
<1> QED BY <1>1, <1>2 DEF ImportRest

\* A sequence with x at its head.
LEMMA ConsFacts ==
  ASSUME NEW x, NEW v, IsSequence(v)
  PROVE  /\ IsSequence(Cons(x, v)) /\ Cons(x, v) # <<>>
         /\ Head(Cons(x, v)) = x /\ Tail(Cons(x, v)) = v
<1>1. PICK t : t = <<x>> \o v
  OBVIOUS
<1>2. IsSequence(t) /\ t # <<>> /\ Head(t) = x /\ Tail(t) = v
  BY <1>1, HeadTailFacts
<1>3. t = Cons(x, v)
  BY <1>1 DEF Cons
<1> QED BY <1>2, <1>3

\* A sequence that is enclosed.
LEMMA EnclosedSequence ==
  ASSUME NEW x, NEW u, NEW y, NEW v, IsSequence(u), IsSequence(v)
  PROVE  IsSequence(Enclosed(x, u, y, v))
<1>1. IsSequence(Cons(y, v))
  BY ConsFacts
<1>2. IsSequence(u \o Cons(y, v))
  BY <1>1, ConcatFacts
<1> QED BY <1>2, ConsFacts DEF Enclosed

\* What is plain begins with one of these, and what is in it and what
\* follows are plain again.
LEMMA PlainCases ==
  ASSUME NEW t, Plain(t)
  PROVE  \/ t = <<>>
         \/ \E x, v : Plain(v) /\ PlainOne(x) /\ t = Cons(x, v)
         \/ \E kind, u, v : /\ Plain(v) /\ (Plain(u) \/ ImportRest(u))
                            /\ t = Enclosed(Open(kind), u, Close, v)
         \/ \E u, v : Plain(u) /\ Plain(v) /\ t = Enclosed(Mark, u, Wrap, v)
<1>1. PICK P : Closed(P) /\ t \in P
  BY DEF Plain
<1>2. \A v \in P : Plain(v)
  BY <1>1 DEF Plain
<1>3. \A x : Within(P, x) => PlainOne(x)
  BY <1>2 DEF Within, PlainOne
<1>4. Begins(P, t)
  BY <1>1 DEF Closed
<1> QED BY <1>2, <1>3, <1>4 DEF Begins

\* A set that holds all the parts of a plain beginning.
LEMMA OneWithin ==
  ASSUME NEW x, PlainOne(x)
  PROVE  \E P : Closed(P) /\ Within(P, x)
<1>1. CASE x.op \in Atoms
  <2>1. Closed({})
    BY DEF Closed
  <2> QED BY <1>1, <2>1 DEF Within
<1>2. CASE \E c, yes, no : Plain(yes) /\ Plain(no) /\ x = If(c, yes, no)
  <2>1. PICK c, yes, no : Plain(yes) /\ Plain(no) /\ x = If(c, yes, no)
    BY <1>2
  <2>2. PICK P : Closed(P) /\ yes \in P
    BY <2>1 DEF Plain
  <2>3. PICK R : Closed(R) /\ no \in R
    BY <2>1 DEF Plain
  <2>4. Closed(P \cup R)
    BY <2>2, <2>3, ClosedUnion
  <2>5. Within(P \cup R, x)
    BY <2>1, <2>2, <2>3 DEF Within
  <2> QED BY <2>4, <2>5
<1>3. CASE \E c, body, p : Plain(body) /\ x \in Loops(c, body, p)
  BY <1>3 DEF Plain, Within
<1> QED BY <1>1, <1>2, <1>3 DEF PlainOne

\* Something that leaves the frames alone, then something plain.
LEMMA PlainCons ==
  ASSUME NEW x, NEW v, PlainOne(x), Plain(v)
  PROVE  Plain(Cons(x, v))
<1>1. PICK P : Closed(P) /\ Within(P, x)
  BY OneWithin
<1>2. PICK R : Closed(R) /\ v \in R
  BY DEF Plain
<1> DEFINE W == P \cup R
<1>3. Closed(W) /\ Within(W, x) /\ v \in W
  BY <1>1, <1>2, ClosedUnion, WithinMore
<1> HIDE DEF W
<1> DEFINE t == Cons(x, v)
<1>4. Begins(W, t)
  BY <1>3 DEF Begins
<1>5. IsSequence(t)
  BY PlainSequence, ConsFacts
<1> HIDE DEF t
<1>6. Plain(t)
  BY <1>3, <1>4, <1>5, ClosedWith
<1> QED BY <1>6 DEF t

\* A node with something plain in it, or what is left of ImportName.
LEMMA PlainNode ==
  ASSUME NEW kind, NEW u, NEW v, Plain(u) \/ ImportRest(u), Plain(v)
  PROVE  Plain(Enclosed(Open(kind), u, Close, v))
<1>1. PICK P : Closed(P) /\ v \in P /\ (u \in P \/ ImportRest(u))
  <2>1. PICK R : Closed(R) /\ v \in R
    BY DEF Plain
  <2>2. CASE ImportRest(u)
    BY <2>1, <2>2
  <2>3. CASE Plain(u)
    <3>1. PICK V : Closed(V) /\ u \in V
      BY <2>3 DEF Plain
    <3>2. Closed(V \cup R) /\ v \in V \cup R /\ u \in V \cup R
      BY <2>1, <3>1, ClosedUnion
    <3> QED BY <3>2
  <2> QED BY <2>2, <2>3
<1> DEFINE t == Enclosed(Open(kind), u, Close, v)
<1>2. IsSequence(t)
  BY PlainSequence, ImportRestSequence, EnclosedSequence
<1>3. Begins(P, t)
  BY <1>1 DEF Begins
<1> HIDE DEF t
<1>4. Plain(t)
  BY <1>1, <1>2, <1>3, ClosedWith
<1> QED BY <1>4 DEF t

\* What is plain may be wrapped.
LEMMA PlainMark ==
  ASSUME NEW u, NEW v, Plain(u), Plain(v)
  PROVE  Plain(Enclosed(Mark, u, Wrap, v))
<1>1. PICK P : Closed(P) /\ v \in P /\ u \in P
  <2>1. PICK R : Closed(R) /\ v \in R
    BY DEF Plain
  <2>2. PICK V : Closed(V) /\ u \in V
    BY DEF Plain
  <2>3. Closed(V \cup R) /\ v \in V \cup R /\ u \in V \cup R
    BY <2>1, <2>2, ClosedUnion
  <2> QED BY <2>3
<1> DEFINE t == Enclosed(Mark, u, Wrap, v)
<1>2. IsSequence(t)
  BY PlainSequence, EnclosedSequence
<1>3. Begins(P, t)
  BY <1>1 DEF Begins
<1> HIDE DEF t
<1>4. Plain(t)
  BY <1>1, <1>2, <1>3, ClosedWith
<1> QED BY <1>4 DEF t

\* What follows a sequence follows its tail.
LEMMA ConsConcat ==
  ASSUME NEW x, NEW v, NEW s, IsSequence(v), IsSequence(s)
  PROVE  Cons(x, v) \o s = Cons(x, v \o s)
<1>1. PICK h : h = <<x>> /\ IsSequence(h)
  BY SingleFacts
<1>2. (h \o v) \o s = h \o (v \o s)
  BY <1>1, ConcatAssociates
<1>3. \A r : Cons(x, r) = h \o r
  BY <1>1 DEF Cons
<1> QED BY <1>2, <1>3

\* In the same way behind what is enclosed.
LEMMA EnclosedConcat ==
  ASSUME NEW x, NEW u, NEW y, NEW v, NEW s, IsSequence(u), IsSequence(v), IsSequence(s)
  PROVE  Enclosed(x, u, y, v) \o s = Enclosed(x, u, y, v \o s)
<1>1. PICK w : w = Cons(y, v)
  OBVIOUS
<1>2. IsSequence(w)
  BY <1>1, ConsFacts
<1>3. w \o s = Cons(y, v \o s)
  <2>1. PICK h : h = <<y>> /\ IsSequence(h)
    BY SingleFacts
  <2>2. Associate(h, v, s)
    BY <2>1, TheseAssociate
  <2> QED BY <1>1, <2>1, <2>2 DEF Associate, Cons
<1>4. PICK uw : uw = u \o w
  OBVIOUS
<1>5. IsSequence(uw)
  BY <1>2, <1>4, ConcatFacts
<1>6. (u \o w) \o s = u \o (w \o s)
  BY <1>2, ConcatAssociates
<1>7. Cons(x, uw) \o s = Cons(x, uw \o s)
  BY <1>5, ConsConcat
<1> QED BY <1>1, <1>3, <1>4, <1>6, <1>7 DEF Enclosed

\* One plain thing after the other is plain.
LEMMA PlainConcat ==
  ASSUME NEW u, NEW s, Plain(u), Plain(s)
  PROVE  Plain(u \o s)
<1>1. PICK P : Closed(P) /\ u \in P
  BY DEF Plain
<1>2. PICK R : Closed(R) /\ s \in R
  BY DEF Plain
<1> DEFINE B == P \cup R
           W == {t \o s : t \in P} \cup B
<1>3. Closed(B) /\ IsSequence(s) /\ s \in B /\ B \subseteq W
  BY <1>1, <1>2, ClosedUnion, PlainSequence
<1>4. \A t \in P : IsSequence(t) /\ Begins(P, t)
  BY <1>1 DEF Closed
<1>5. \A t \in P : t \o s \in W
  OBVIOUS
<1>a. P \subseteq W
  OBVIOUS
<1>6. ASSUME NEW t \in P
      PROVE  IsSequence(t \o s) /\ Begins(W, t \o s)
  <2>1. IsSequence(t \o s)
    BY <1>3, <1>4, ConcatFacts
  <2>2. CASE t = <<>>
    <3>1. t \o s = s
      BY <1>3, <2>2, ConcatEmpty
    <3>2. Begins(B, s)
      BY <1>3 DEF Closed
    <3> HIDE DEF W, B
    <3> QED BY <1>3, <2>1, <3>1, <3>2, BeginsMore
  <2>3. CASE \E x : \E v \in P : Within(P, x) /\ t = Cons(x, v)
    <3>1. PICK x : \E v \in P : Within(P, x) /\ t = Cons(x, v)
      BY <2>3
    <3>2. PICK v \in P : Within(P, x) /\ t = Cons(x, v)
      BY <3>1
    <3>3. t \o s = Cons(x, v \o s)
      <4>1. IsSequence(v) /\ IsSequence(s)
        BY <1>3, <1>4
      <4>2. Cons(x, v) \o s = Cons(x, v \o s)
        BY <4>1, ConsConcat
      <4> QED BY <3>2, <4>2
    <3>4. v \o s \in W
      BY <1>5
    <3> HIDE DEF W, B
    <3>5. Within(W, x)
      BY <1>a, <3>2, WithinMore
    <3>6. Begins(W, t \o s)
      BY <3>3, <3>4, <3>5 DEF Begins
    <3> QED BY <2>1, <3>6
  <2>4. CASE \E kind, v : \E w \in P :
               (v \in P \/ ImportRest(v)) /\ t = Enclosed(Open(kind), v, Close, w)
    <3>1. PICK kind, v : \E w \in P :
               (v \in P \/ ImportRest(v)) /\ t = Enclosed(Open(kind), v, Close, w)
      BY <2>4
    <3>2. PICK w \in P : (v \in P \/ ImportRest(v)) /\ t = Enclosed(Open(kind), v, Close, w)
      BY <3>1
    <3>3. IsSequence(v) /\ IsSequence(w)
      BY <1>4, <3>2, ImportRestSequence
    <3>4. t \o s = Enclosed(Open(kind), v, Close, w \o s)
      <4>1. IsSequence(s)
        BY <1>3
      <4>2. Enclosed(Open(kind), v, Close, w) \o s = Enclosed(Open(kind), v, Close, w \o s)
        BY <3>3, <4>1, EnclosedConcat
      <4> QED BY <3>2, <4>2
    <3>5. w \o s \in W
      BY <1>5
    <3> HIDE DEF W, B
    <3>6. v \in W \/ ImportRest(v)
      BY <1>a, <3>2
    <3>7. Begins(W, t \o s)
      BY <3>4, <3>5, <3>6 DEF Begins
    <3> QED BY <2>1, <3>7
  <2>5. CASE \E v, w \in P : t = Enclosed(Mark, v, Wrap, w)
    <3>1. PICK v \in P, w \in P : t = Enclosed(Mark, v, Wrap, w)
      BY <2>5
    <3>2. IsSequence(v) /\ IsSequence(w)
      BY <1>4
    <3>3. t \o s = Enclosed(Mark, v, Wrap, w \o s)
      <4>1. IsSequence(s)
        BY <1>3
      <4>2. Enclosed(Mark, v, Wrap, w) \o s = Enclosed(Mark, v, Wrap, w \o s)
        BY <3>2, <4>1, EnclosedConcat
      <4> QED BY <3>1, <4>2
    <3>4. w \o s \in W
      BY <1>5
    <3> HIDE DEF W, B
    <3>5. v \in W
      BY <1>a
    <3>6. Begins(W, t \o s)
      BY <3>3, <3>4, <3>5 DEF Begins
    <3> QED BY <2>1, <3>6
  <2>6. Begins(P, t)
    BY <1>4
  <2> HIDE DEF W, B
  <2> QED BY <2>2, <2>3, <2>4, <2>5, <2>6 DEF Begins
<1>7. ASSUME NEW t \in W
      PROVE  IsSequence(t) /\ Begins(W, t)
  <2>1. CASE t \in B
    <3> HIDE DEF W, B
    <3> QED BY <1>3, <2>1, BeginsMore DEF Closed
  <2>2. CASE t \in {r \o s : r \in P}
    <3>1. PICK r \in P : t = r \o s
      BY <2>2
    <3> HIDE DEF W, B
    <3> QED BY <1>6, <3>1
  <2> QED BY <2>1, <2>2
<1>8. u \o s \in W
  BY <1>1
<1> HIDE DEF W
<1>9. Closed(W)
  BY <1>7 DEF Closed
<1> QED BY <1>8, <1>9 DEF Plain

\* A sequence that is only a head.
LEMMA ConsSingle == \A x : Cons(x, <<>>) = <<x>>
<1> TAKE x
<1>1. PICK h : h = <<x>> /\ IsSequence(h)
  BY SingleFacts
<1>2. h \o <<>> = h
  BY <1>1, ConcatEmpty
<1> QED BY <1>1, <1>2 DEF Cons

\* A list of plain instructions is plain.
LEMMA PlainListed ==
  ASSUME NEW s, IsSequence(s), \A i \in 1 .. Len(s) : PlainOne(s[i])
  PROVE  Plain(s)
<1> DEFINE Bad(n) == \E r : /\ IsSequence(r) /\ Len(r) = n
                            /\ (\A i \in 1 .. Len(r) : PlainOne(r[i])) /\ ~Plain(r)
           T == {n \in Nat : Bad(n)}
<1> SUFFICES T = {}
  <2>1. Len(s) \in Nat
    BY SequenceFacts
  <2> QED BY <2>1
<1> SUFFICES ASSUME T # {}
             PROVE  FALSE
  OBVIOUS
<1>1. T \in SUBSET Nat
  OBVIOUS
<1>2. PICK m \in T : \A n \in T : m <= n
  BY <1>1, LeastElement
<1>3. PICK r : /\ IsSequence(r) /\ Len(r) = m
               /\ (\A i \in 1 .. Len(r) : PlainOne(r[i])) /\ ~Plain(r)
  OBVIOUS
<1>4. r # <<>>
  BY <1>3, PlainEmpty
<1>5. PICK x, v : x = Head(r) /\ v = Tail(r)
  OBVIOUS
<1>6. r = Cons(x, v) /\ IsSequence(v) /\ Len(r) >= 1 /\ x = r[1]
  BY <1>3, <1>4, <1>5, HeadAndTail DEF Cons
<1>7. Len(v) = m - 1 /\ \A i \in 1 .. Len(v) : v[i] = r[i + 1]
  BY <1>3, <1>4, <1>5, HeadTailProperties DEF IsSequence
<1>8. PlainOne(x) /\ \A i \in 1 .. Len(v) : PlainOne(v[i])
  <2>1. m \in Nat /\ Len(v) = m - 1 /\ 1 \in 1 .. Len(r)
    BY <1>2, <1>3, <1>6, <1>7
  <2>2. \A i \in 1 .. Len(v) : i + 1 \in 1 .. Len(r)
    BY <1>3, <2>1
  <2> QED BY <1>3, <1>6, <1>7, <2>1, <2>2
<1>9. CASE Plain(v)
  BY <1>3, <1>6, <1>8, <1>9, PlainCons
<1>10. CASE ~Plain(v)
  <2>1. m - 1 \in Nat /\ ~(m <= m - 1)
    BY <1>3, <1>6
  <2>2. Bad(m - 1)
    BY <1>6, <1>7, <1>8, <1>10
  <2>3. m - 1 \in T
    BY <2>1, <2>2
  <2> QED BY <1>2, <2>1, <2>3
<1> QED BY <1>9, <1>10

\* Its instructions.
LEMMA PlainAtoms ==
  /\ PlainOne(Lex) /\ PlainOne(Bump) /\ PlainOne(EmitTrivia) /\ PlainOne(Member)
  /\ \A kind : PlainOne(Label(kind))
BY DEF PlainOne, Atoms, Lex, Bump, EmitTrivia, Member, Label

\* A choice between plain things.
LEMMA PlainIf ==
  ASSUME NEW c, NEW yes, NEW no, Plain(yes), Plain(no)
  PROVE  PlainOne(If(c, yes, no))
BY DEF PlainOne

\* An option.
LEMMA PlainOpt ==
  ASSUME NEW c, NEW yes, Plain(yes)
  PROVE  PlainOne(Opt(c, yes))
BY PlainIf, PlainEmpty DEF Opt

\* A loop of something plain.
LEMMA PlainLoops ==
  ASSUME NEW c, NEW body, Plain(body)
  PROVE  PlainOne(While(c, body)) /\ PlainOne(Until(c, body))
<1>1. While(c, body) \in Loops(c, body, 0) /\ Until(c, body) \in Loops(c, body, 0)
  BY DEF While, Until, Loops
<1> QED BY <1>1 DEF PlainOne

\* Short lists.
LEMMA PlainOf1 ==
  ASSUME NEW x1, PlainOne(x1)
  PROVE  Plain(<<x1>>)
BY PlainCons, PlainEmpty, ConsSingle

\* Short lists.
LEMMA PlainOf2 ==
  ASSUME NEW x1, NEW x2, PlainOne(x1), PlainOne(x2)
  PROVE  Plain(<<x1, x2>>)
<1>1. PICK s : s = <<x1, x2>>
  OBVIOUS
<1>2. s \in Seq({x1, x2}) /\ Len(s) = 2 /\ s[1] = x1 /\ s[2] = x2
  BY <1>1
<1>3. \A i \in 1 .. Len(s) : i = 1 \/ i = 2
  BY <1>2
<1> QED BY <1>1, <1>2, <1>3, PlainListed, SeqIsSequence

LEMMA PlainOf3 ==
  ASSUME NEW x1, NEW x2, NEW x3, PlainOne(x1), PlainOne(x2), PlainOne(x3)
  PROVE  Plain(<<x1, x2, x3>>)
<1>1. PICK s : s = <<x1, x2, x3>>
  OBVIOUS
<1>2. s \in Seq({x1, x2, x3}) /\ Len(s) = 3 /\ s[1] = x1 /\ s[2] = x2 /\ s[3] = x3
  BY <1>1
<1>3. \A i \in 1 .. Len(s) : i = 1 \/ i = 2 \/ i = 3
  BY <1>2
<1> QED BY <1>1, <1>2, <1>3, PlainListed, SeqIsSequence

LEMMA PlainOf4 ==
  ASSUME NEW x1, NEW x2, NEW x3, NEW x4, PlainOne(x1), PlainOne(x2), PlainOne(x3), PlainOne(x4)
  PROVE  Plain(<<x1, x2, x3, x4>>)
<1>1. PICK s : s = <<x1, x2, x3, x4>>
  OBVIOUS
<1>2. s \in Seq({x1, x2, x3, x4}) /\ Len(s) = 4 /\ s[1] = x1 /\ s[2] = x2 /\ s[3] = x3 /\ s[4] = x4
  BY <1>1
<1>3. \A i \in 1 .. Len(s) : i = 1 \/ i = 2 \/ i = 3 \/ i = 4
  BY <1>2
<1> QED BY <1>1, <1>2, <1>3, PlainListed, SeqIsSequence

LEMMA PlainOf7 ==
  ASSUME NEW x1, NEW x2, NEW x3, NEW x4, NEW x5, NEW x6, NEW x7,
         PlainOne(x1), PlainOne(x2), PlainOne(x3), PlainOne(x4), PlainOne(x5), PlainOne(x6), PlainOne(x7)
  PROVE  Plain(<<x1, x2, x3, x4, x5, x6, x7>>)
<1>1. PICK s : s = <<x1, x2, x3, x4, x5, x6, x7>>
  OBVIOUS
<1>2. /\ s \in Seq({x1, x2, x3, x4, x5, x6, x7}) /\ Len(s) = 7
      /\ s[1] = x1 /\ s[2] = x2 /\ s[3] = x3 /\ s[4] = x4 /\ s[5] = x5 /\ s[6] = x6 /\ s[7] = x7
  BY <1>1
<1>3. \A i \in 1 .. Len(s) : i = 1 \/ i = 2 \/ i = 3 \/ i = 4 \/ i = 5 \/ i = 6 \/ i = 7
  BY <1>2
<1> QED BY <1>1, <1>2, <1>3, PlainListed, SeqIsSequence

\* A node is its body between Open and Close.
LEMMA NodeEncloses ==
  ASSUME NEW kind, NEW body, IsSequence(body)
  PROVE  Node(kind, body) = Enclosed(Open(kind), body, Close, <<>>)
<1>1. PICK o, c : o = <<Open(kind)>> /\ c = <<Close>> /\ IsSequence(o) /\ IsSequence(c)
  BY SingleFacts
<1>2. (o \o body) \o c = o \o (body \o c)
  BY <1>1, ConcatAssociates
<1>3. Cons(Close, <<>>) = c
  BY <1>1, ConsSingle
<1>4. Enclosed(Open(kind), body, Close, <<>>) = o \o (body \o c)
  BY <1>1, <1>3 DEF Enclosed, Cons
<1> QED BY <1>1, <1>2, <1>4 DEF Node

\* A node of something plain.
LEMMA NodePlain ==
  ASSUME NEW kind, NEW body, Plain(body) \/ ImportRest(body)
  PROVE  Plain(Node(kind, body))
<1>1. IsSequence(body)
  BY PlainSequence, ImportRestSequence
<1>2. Node(kind, body) = Enclosed(Open(kind), body, Close, <<>>)
  BY <1>1, NodeEncloses
<1> QED BY <1>2, PlainNode, PlainEmpty

\* What begins with Mark, and may be wrapped.
Marked(s) == \E u : Plain(u) /\ s = Cons(Mark, u)

\* More may be wrapped.
LEMMA MarkedConcat ==
  ASSUME NEW s, NEW t, Marked(s), Plain(t)
  PROVE  Marked(s \o t)
<1>1. PICK u : Plain(u) /\ s = Cons(Mark, u)
  BY DEF Marked
<1>2. IsSequence(u) /\ IsSequence(t)
  BY <1>1, PlainSequence
<1>3. Cons(Mark, u) \o t = Cons(Mark, u \o t)
  BY <1>2, ConsConcat
<1>4. Plain(u \o t)
  BY <1>1, PlainConcat
<1> QED BY <1>1, <1>3, <1>4 DEF Marked

\* What is wrapped is plain.
LEMMA WrapPlain ==
  ASSUME NEW s, Marked(s)
  PROVE  Plain(s \o <<Wrap>>)
<1>1. PICK u : Plain(u) /\ s = Cons(Mark, u)
  BY DEF Marked
<1>2. PICK w : w = <<Wrap>> /\ IsSequence(w)
  BY SingleFacts
<1>a. IsSequence(u) /\ IsSequence(w)
  BY <1>1, <1>2, PlainSequence
<1>3. Cons(Mark, u) \o w = Cons(Mark, u \o w)
  BY <1>a, ConsConcat
<1>4. w = Cons(Wrap, <<>>)
  BY <1>2, ConsSingle
<1>5. s \o <<Wrap>> = Enclosed(Mark, u, Wrap, <<>>)
  BY <1>1, <1>2, <1>3, <1>4 DEF Enclosed
<1> QED BY <1>1, <1>5, PlainMark, PlainEmpty
-----------------------------------------------------------------------------
(***************************************************************************)
(* Every function of the parser is plain.                                  *)
(***************************************************************************)
LEMMA NamesPlain ==
  Plain(NameSegment) /\ Plain(QualifiedName) /\ Plain(NameOpt) /\ Plain(SemiOpt)
<1>1. Plain(<<Bump>>) /\ PlainOne(Bump)
  BY PlainAtoms, PlainOf1
<1>2. Plain(Node("Name", <<Bump>>))
  BY <1>1, NodePlain
<1>3. Plain(Node("ErrorNode", <<If("EOF", <<>>, <<Bump>>)>>))
  BY <1>1, NodePlain, PlainEmpty, PlainIf, PlainOf1
<1>4. Plain(NameSegment)
  BY <1>2, <1>3, PlainIf, PlainOf1 DEF NameSegment
<1>5. Plain(<<While("::", <<Bump>> \o NameSegment)>>)
  BY <1>1, <1>4, PlainConcat, PlainLoops, PlainOf1
<1>6. Plain(QualifiedName)
  BY <1>4, <1>5, PlainConcat, NodePlain DEF QualifiedName
<1>7. Plain(NameOpt)
  BY <1>6, PlainOpt, PlainOf1 DEF NameOpt
<1>8. Plain(SemiOpt)
  BY <1>1, PlainOpt, PlainOf1 DEF SemiOpt
<1> QED BY <1>4, <1>6, <1>7, <1>8

\* One token.
LEMMA BumpPlain == Plain(<<Bump>>) /\ PlainOne(Bump)
BY PlainAtoms, PlainOf1

\* A token that is optional.
LEMMA PlainOptBump == \A c : PlainOne(Opt(c, <<Bump>>))
BY BumpPlain, PlainOpt

\* Tokens up to another one.
LEMMA PlainUntilBump == \A c : PlainOne(Until(c, <<Bump>>))
BY BumpPlain, PlainLoops

\* Something that is optional after a keyword.
LEMMA PlainOptName == \A c : PlainOne(Opt(c, <<Bump>> \o NameOpt))
<1>1. Plain(<<Bump>> \o NameOpt)
  BY BumpPlain, NamesPlain, PlainConcat
<1> QED BY <1>1, PlainOpt

LEMMA RelationshipsPlain == Plain(Relationships)
<1>1. Plain(<<Bump>> \o QualifiedName)
  BY BumpPlain, NamesPlain, PlainConcat
<1>2. Plain(<<While(",", <<Bump>> \o QualifiedName)>>)
  BY <1>1, PlainLoops, PlainOf1
<1>3. Plain(<<Bump>> \o QualifiedName \o <<While(",", <<Bump>> \o QualifiedName)>>)
  BY <1>1, <1>2, PlainConcat
<1> QED BY <1>3, NodePlain, PlainLoops, PlainOf1 DEF Relationships

LEMMA MultiplicityPlain == Plain(MultiplicityOpt)
<1>1. Plain(<<Bump, Until("]", <<Bump>>), Opt("]", <<Bump>>)>>)
  BY BumpPlain, PlainOptBump, PlainUntilBump, PlainOf3
<1> QED BY <1>1, NodePlain, PlainOpt, PlainOf1 DEF MultiplicityOpt

LEMMA FeatureValuePlain == Plain(FeatureValueOpt)
<1>1. Plain(Literal)
  BY PlainOptBump, PlainOf1 DEF Literal
<1>2. Plain(<<If("NAME", QualifiedName, Literal)>>)
  BY <1>1, NamesPlain, PlainIf, PlainOf1
<1>3. Plain(<<Bump>> \o Node("Expr", <<If("NAME", QualifiedName, Literal)>>))
  BY <1>2, BumpPlain, NodePlain, PlainConcat
<1> QED BY <1>3, NodePlain, PlainOpt, PlainOf1 DEF FeatureValueOpt

LEMMA ErrorMemberPlain == Plain(ErrorMember)
<1>1. Plain(<<Bump, Until("MEMBEREND", <<Bump>>)>>)
  BY BumpPlain, PlainUntilBump, PlainOf2
<1> QED BY <1>1, NamesPlain, PlainConcat, NodePlain DEF ErrorMember

LEMMA LabelMarked == \A kind : Marked(<<Mark, Label(kind)>>)
<1> TAKE kind
<1>1. Plain(<<Label(kind)>>)
  BY PlainAtoms, PlainOf1
<1>2. PICK u : u = <<Label(kind)>>
  OBVIOUS
<1>3. <<Mark, Label(kind)>> = <<Mark>> \o u
  BY <1>2
<1> QED BY <1>1, <1>2, <1>3 DEF Marked, Cons

LEMMA AssignmentPlain == Plain(Assignment)
<1>1. Marked(<<Mark, Label("Usage")>> \o QualifiedName)
  BY LabelMarked, NamesPlain, MarkedConcat
<1>2. Marked(<<Mark, Label("Usage")>> \o QualifiedName \o Relationships)
  BY <1>1, RelationshipsPlain, MarkedConcat
<1>3. Marked(<<Mark, Label("Usage")>> \o QualifiedName \o Relationships \o FeatureValueOpt)
  BY <1>2, FeatureValuePlain, MarkedConcat
<1>4. Marked(<<Mark, Label("Usage")>> \o QualifiedName \o Relationships \o FeatureValueOpt \o SemiOpt)
  BY <1>3, NamesPlain, MarkedConcat
<1> QED BY <1>4, WrapPlain DEF Assignment

LEMMA PrefixPlain == Plain(Prefix)
<1>1. Plain(<<If("NAME", Assignment, ErrorMember)>>)
  BY AssignmentPlain, ErrorMemberPlain, PlainIf, PlainOf1
<1>2. PlainOne(Until("}", <<If("NAME", Assignment, ErrorMember)>>))
  BY <1>1, PlainLoops
<1>3. Plain(AnnotationBody)
  BY <1>2, BumpPlain, PlainOptBump, PlainOf3, NodePlain DEF AnnotationBody
<1>4. Plain(<<Opt("{", AnnotationBody)>>)
  BY <1>3, PlainOpt, PlainOf1
<1>5. Plain(<<Bump>> \o NameOpt)
  BY BumpPlain, NamesPlain, PlainConcat
<1>6. Plain(Node("Annotation", <<Bump>> \o NameOpt \o <<Opt("{", AnnotationBody)>>))
  BY <1>4, <1>5, PlainConcat, NodePlain
<1>7. Plain(Node("Visibility", <<Bump>>))
  BY BumpPlain, NodePlain
<1> QED BY <1>6, <1>7, PlainLoops, PlainOpt, PlainOf2 DEF Prefix

LEMMA BodyPlain == Plain(Body) /\ Plain(BodyOrSemi)
<1>1. PlainOne(Until("}", <<Member>>))
  BY PlainAtoms, PlainOf1, PlainLoops
<1>2. Plain(Body)
  BY <1>1, BumpPlain, PlainOptBump, PlainOf3, NodePlain DEF Body
<1> QED BY <1>2, NamesPlain, PlainIf, PlainOf1 DEF BodyOrSemi

LEMMA PackagePlain == Plain(Package)
<1>1. Plain(Prefix \o <<Bump>>)
  BY PrefixPlain, BumpPlain, PlainConcat
<1>2. Plain(Prefix \o <<Bump>> \o NameOpt)
  BY <1>1, NamesPlain, PlainConcat
<1> QED BY <1>2, BodyPlain, PlainConcat, NodePlain DEF Package

LEMMA ImportNamePlain == Plain(ImportName)
<1>1. ImportRest(<<ImportStart>>)
  BY DEF ImportRest
<1>2. ImportName = Node("ImportName", <<ImportStart>>)
  BY DEF ImportName, ImportStart, ImportSegments, ImportStep, While
<1> QED BY <1>1, <1>2, NodePlain

LEMMA ImportPlain == Plain(Import)
<1>1. Plain(Prefix \o <<Bump>>)
  BY PrefixPlain, BumpPlain, PlainConcat
<1>2. Plain(Prefix \o <<Bump>> \o ImportName)
  BY <1>1, ImportNamePlain, PlainConcat
<1> QED BY <1>2, NamesPlain, PlainConcat, NodePlain DEF Import

LEMMA DeclarationPlain == Plain(Declaration)
<1> DEFINE kind == <<While("MODIFIER", <<Bump>>),
                     If("TYPE", <<Label("TypeDecl")>> \o KindKeyword, <<Opt("SYSML", KindKeyword)>>)>>
<1>1. Plain(KindKeyword)
  <2>1. Plain(<<Bump, Label("Def")>>)
    BY PlainAtoms, PlainOf2
  <2> QED BY <2>1, PlainAtoms, PlainOpt, PlainOf2 DEF KindKeyword
<1>2. Plain(<<Label("TypeDecl")>> \o KindKeyword)
  BY <1>1, PlainAtoms, PlainOf1, PlainConcat
<1>3. Plain(<<Opt("SYSML", KindKeyword)>>)
  BY <1>1, PlainOpt, PlainOf1
<1>4. Plain(kind)
  <2>1. PlainOne(If("TYPE", <<Label("TypeDecl")>> \o KindKeyword, <<Opt("SYSML", KindKeyword)>>))
    BY <1>2, <1>3, PlainIf
  <2>2. PlainOne(While("MODIFIER", <<Bump>>))
    BY BumpPlain, PlainLoops
  <2> QED BY <2>1, <2>2, PlainOf2
<1> HIDE DEF kind
<1> DEFINE s1 == <<Mark, Label("Usage")>> \o Prefix
<1>5. Marked(s1)
  BY LabelMarked, PrefixPlain, MarkedConcat
<1> HIDE DEF s1
<1> DEFINE s2 == s1 \o kind
<1>6. Marked(s2)
  BY <1>4, <1>5, MarkedConcat
<1> HIDE DEF s2
<1> DEFINE s3 == s2 \o NameOpt
<1>7. Marked(s3)
  BY <1>6, NamesPlain, MarkedConcat
<1> HIDE DEF s3
<1> DEFINE s4 == s3 \o Relationships
<1>8. Marked(s4)
  BY <1>7, RelationshipsPlain, MarkedConcat
<1> HIDE DEF s4
<1> DEFINE s5 == s4 \o MultiplicityOpt
<1>9. Marked(s5)
  BY <1>8, MultiplicityPlain, MarkedConcat
<1> HIDE DEF s5
<1> DEFINE s6 == s5 \o FeatureValueOpt
<1>10. Marked(s6)
  BY <1>9, FeatureValuePlain, MarkedConcat
<1> HIDE DEF s6
<1> DEFINE s7 == s6 \o BodyOrSemi
<1>11. Marked(s7)
  BY <1>10, BodyPlain, MarkedConcat
<1> HIDE DEF s7
<1>12. Plain(s7 \o <<Wrap>>)
  BY <1>11, WrapPlain
<1>13. Declaration = s7 \o <<Wrap>>
  BY DEF Declaration, s1, s2, s3, s4, s5, s6, s7, kind
<1> QED BY <1>12, <1>13

LEMMA GuardPlain == \A end : Plain(Guard(end))
<1> TAKE end
<1>1. Plain(<<Until(end, <<Bump>>)>>)
  BY PlainUntilBump, PlainOf1
<1> QED BY <1>1, NodePlain DEF Guard

LEMMA EventPlain == Plain(Event)
<1>1. Plain(<<Bump, Opt("WHEN", <<Bump>>)>>)
  BY BumpPlain, PlainOptBump, PlainOf2
<1>2. Plain(Reference)
  <2>1. Plain(<<Opt("LITERAL", Node("Expr", <<Bump>>))>>)
    BY BumpPlain, NodePlain, PlainOpt, PlainOf1
  <2> QED BY <2>1, NamesPlain, PlainIf, PlainOf1 DEF Reference
<1>3. Plain(<<Bump, Opt("WHEN", <<Bump>>)>> \o Reference)
  BY <1>1, <1>2, PlainConcat
<1> QED BY <1>3, RelationshipsPlain, PlainConcat DEF Event

LEMMA StatementsPlain ==
  Plain(Perform) /\ Plain(Accept) /\ Plain(ControlNode) /\ Plain(Loop) /\ Plain(Succession) /\ Plain(Transition)
<1>1. Plain(Perform)
  <2>1. Plain(<<Bump, Opt("action", <<Bump>>)>>)
    BY BumpPlain, PlainOptBump, PlainOf2
  <2>2. Plain(<<Bump, Opt("action", <<Bump>>)>> \o NameOpt)
    BY <2>1, NamesPlain, PlainConcat
  <2>3. Plain(<<Bump, Opt("action", <<Bump>>)>> \o NameOpt \o Relationships)
    BY <2>2, RelationshipsPlain, PlainConcat
  <2> QED BY <2>3, NamesPlain, PlainConcat, NodePlain DEF Perform
<1>2. Plain(Accept)
  BY EventPlain, NamesPlain, PlainConcat, NodePlain DEF Accept
<1>3. Plain(ControlNode)
  <2>1. Plain(<<Bump>> \o NameOpt)
    BY BumpPlain, NamesPlain, PlainConcat
  <2> QED BY <2>1, NamesPlain, PlainConcat, NodePlain DEF ControlNode
<1>4. Plain(Loop)
  <2>1. PlainOne(If("Int", Node("Expr", <<Bump>>), NameOpt))
    BY BumpPlain, NamesPlain, NodePlain, PlainIf
  <2>2. Plain(<<Bump, If("Int", Node("Expr", <<Bump>>), NameOpt), Opt("times", <<Bump>>)>>)
    BY <2>1, BumpPlain, PlainOptBump, PlainOf3
  <2>3. Plain(<<Bump, If("Int", Node("Expr", <<Bump>>), NameOpt), Opt("times", <<Bump>>)>> \o NameOpt)
    BY <2>2, NamesPlain, PlainConcat
  <2> QED BY <2>3, NamesPlain, PlainConcat, NodePlain DEF Loop
<1>5. \A end : PlainOne(Opt("if", <<Bump>> \o Guard(end)))
  <2> TAKE end
  <2>1. Plain(<<Bump>> \o Guard(end))
    BY BumpPlain, GuardPlain, PlainConcat
  <2> QED BY <2>1, PlainOpt
<1>6. Plain(Succession)
  <2>1. Plain(<<Opt("succession", <<Bump>>), Opt("first", <<Bump>> \o NameOpt),
                Opt("if", <<Bump>> \o Guard("GUARDEND")), Opt("then", <<Bump>> \o NameOpt)>>)
    BY <1>5, PlainOptBump, PlainOptName, PlainOf4
  <2> QED BY <2>1, NamesPlain, PlainConcat, NodePlain DEF Succession
<1>7. Plain(Transition)
  <2>1. PlainOne(If("first", <<>>, NameOpt)) /\ PlainOne(Opt("accept", Event))
    BY PlainEmpty, NamesPlain, EventPlain, PlainIf, PlainOpt
  <2>2. Plain(<<Bump, If("first", <<>>, NameOpt), Opt("first", <<Bump>> \o NameOpt), Opt("accept", Event),
                Opt("if", <<Bump>> \o Guard("TRIGGEREND")), Opt("do", <<Bump>> \o NameOpt),
                Opt("then", <<Bump>> \o NameOpt)>>)
    BY <1>5, <2>1, BumpPlain, PlainOptName, PlainOf7
  <2> QED BY <2>2, NamesPlain, PlainConcat, NodePlain DEF Transition
<1> QED BY <1>1, <1>2, <1>3, <1>4, <1>6, <1>7

LEMMA MemberPlain == \A keyword : Plain(MemberOf(keyword))
BY ImportPlain, PackagePlain, StatementsPlain, DeclarationPlain, ErrorMemberPlain DEF MemberOf
-----------------------------------------------------------------------------
(***************************************************************************)
(* Emit: FoldLeft adds one token after the other.  IsFold says what the    *)
(* recursive function of the fold is.                                      *)
(***************************************************************************)
Emitted(x, s) == FoldLeft(Token, x, s)
IsFold(g, x, n, s) ==
  g = [S \in SUBSET (1 .. n) |-> IF S = {} THEN x ELSE Token(g[S \ {Max(S)}], s[Max(S)])]

\* The function of the fold exists.
LEMMA FoldExists ==
  ASSUME NEW x, NEW s
  PROVE  \A n \in Nat : \E g : IsFold(g, x, n, s)
<1> DEFINE T == {n \in Nat : ~\E g : IsFold(g, x, n, s)}
<1> SUFFICES ASSUME T # {}
             PROVE  FALSE
  OBVIOUS
<1>1. T \in SUBSET Nat
  OBVIOUS
<1>2. PICK m \in T : \A n \in T : m <= n
  BY <1>1, LeastElement
<1>3. m \in Nat /\ ~\E g : IsFold(g, x, m, s)
  OBVIOUS
<1>4. CASE m = 0
  <2> DEFINE g == [S \in SUBSET (1 .. 0) |-> x]
  <2>1. \A S \in SUBSET (1 .. 0) : S = {}
    OBVIOUS
  <2>2. IsFold(g, x, 0, s)
    BY <2>1 DEF IsFold
  <2> QED BY <1>3, <1>4, <2>2
<1>5. CASE m # 0
  <2>1. m - 1 \in Nat /\ ~(m <= m - 1)
    BY <1>3, <1>5
  <2>2. m - 1 \notin T
    BY <1>2, <2>1
  <2>3. PICK k \in Nat : k = m - 1 /\ \E g : IsFold(g, x, k, s)
    BY <2>1, <2>2
  <2>4. PICK h : IsFold(h, x, k, s)
    BY <2>3
  <2>5. m = k + 1
    BY <1>3, <2>3
  <2> DEFINE g == [S \in SUBSET (1 .. m) |-> IF m \in S THEN Token(h[S \ {m}], s[m]) ELSE h[S]]
  <2>6. ASSUME NEW S \in SUBSET (1 .. m)
        PROVE  g[S] = IF S = {} THEN x ELSE Token(g[S \ {Max(S)}], s[Max(S)])
    <3>1. CASE m \in S
      <4>1. Max(S) = m
        <5>1. S \in SUBSET Int /\ \A i \in S : i <= m
          BY <1>3
        <5> QED BY <3>1, <5>1, GreatestIs
      <4>2. S \ {m} \in SUBSET (1 .. m) /\ m \notin S \ {m}
        OBVIOUS
      <4>3. g[S \ {m}] = h[S \ {m}]
        BY <4>2
      <4>4. g[S] = Token(h[S \ {m}], s[m])
        BY <3>1
      <4> QED BY <3>1, <4>1, <4>3, <4>4
    <3>2. CASE m \notin S
      <4>1. S \in SUBSET (1 .. k)
        <5>1. \A i \in S : i \in 1 .. m /\ i # m
          BY <3>2
        <5>2. \A i \in 1 .. m : i # m => i \in 1 .. k
          BY <2>5
        <5> QED BY <5>1, <5>2
      <4>2. h[S] = IF S = {} THEN x ELSE Token(h[S \ {Max(S)}], s[Max(S)])
        BY <2>4, <4>1 DEF IsFold
      <4>3. S \ {Max(S)} \in SUBSET (1 .. m) /\ m \notin S \ {Max(S)}
        BY <3>2
      <4>4. g[S] = h[S] /\ g[S \ {Max(S)}] = h[S \ {Max(S)}]
        BY <3>2, <4>3
      <4> QED BY <4>2, <4>4
    <3> QED BY <3>1, <3>2
  <2>7. IsFold(g, x, m, s)
    <3>1. g = [S \in SUBSET (1 .. m) |-> g[S]]
      OBVIOUS
    <3> HIDE DEF g
    <3> QED BY <2>6, <3>1 DEF IsFold
  <2> QED BY <1>3, <2>7
<1> QED BY <1>4, <1>5

\* What the builder is after each token.
LEMMA FoldIsIteration ==
  ASSUME NEW x, NEW s, IsSequence(s)
  PROVE  \E f : /\ f[0] = x /\ \A i \in 1 .. Len(s) : f[i] = Token(f[i - 1], s[i])
                /\ Emitted(x, s) = f[Len(s)]
<1>1. PICK n \in Nat : n = Len(s) /\ DOMAIN s = 1 .. n
  BY SequenceFacts
<1> DEFINE g == CHOOSE g : IsFold(g, x, n, s)
<1>2. IsFold(g, x, n, s)
  BY FoldExists
<1>3. Emitted(x, s) = g[1 .. n]
  BY <1>1 DEF Emitted, FoldLeft, MapThenFoldSet, IsFold
<1> HIDE DEF g
<1> DEFINE f == [i \in 0 .. n |-> g[1 .. i]]
<1>4. f[0] = x
  <2>1. 1 .. 0 = {} /\ {} \in SUBSET (1 .. n)
    OBVIOUS
  <2>2. g[{}] = x
    BY <1>2, <2>1 DEF IsFold
  <2> QED BY <2>1, <2>2
<1>5. ASSUME NEW i \in 1 .. n
      PROVE  f[i] = Token(f[i - 1], s[i])
  <2>0. i \in 1 .. i
    BY <1>1
  <2>1. i - 1 \in 0 .. n /\ i \in 0 .. n /\ 1 .. i # {} /\ i \in Int
    <3>1. i - 1 \in 0 .. n /\ i \in 0 .. n /\ i \in Int
      BY <1>1
    <3> QED BY <2>0, <3>1
  <2>2. 1 .. i \in SUBSET (1 .. n) /\ 1 .. i \in SUBSET Int /\ i \in 1 .. i /\ \A j \in 1 .. i : j <= i
    BY <1>1, <2>1
  <2>3. Max(1 .. i) = i
    BY <2>2, GreatestIs
  <2>4. (1 .. i) \ {i} = 1 .. i - 1
    BY <1>1, <2>1
  <2>5. g[1 .. i] = Token(g[(1 .. i) \ {Max(1 .. i)}], s[Max(1 .. i)])
    BY <1>2, <2>1, <2>2 DEF IsFold
  <2>6. f[i] = g[1 .. i] /\ f[i - 1] = g[1 .. i - 1]
    BY <2>1
  <2> QED BY <2>3, <2>4, <2>5, <2>6
<1>6. f[n] = g[1 .. n]
  OBVIOUS
<1> HIDE DEF f
<1> QED BY <1>1, <1>3, <1>4, <1>5, <1>6
-----------------------------------------------------------------------------
(***************************************************************************)
(* What the builder's operations do to its frames.                         *)
(***************************************************************************)
IsFrame(f) == f = Frame(f.kind, f.children) /\ IsSequence(f.children)
IsStack(stack) == IsSequence(stack) /\ \A i \in 1 .. Len(stack) : IsFrame(stack[i])
IsBuilder(x) == x = [leaves |-> x.leaves, nodes |-> x.nodes, stack |-> x.stack] /\ IsStack(x.stack)

\* The open node has got more children, and nothing else has changed.
Grows(old, new) ==
  /\ IsStack(new) /\ Len(new) = Len(old)
  /\ \A i \in 1 .. Len(old) - 1 : new[i] = old[i]
  /\ Len(new[Len(old)].children) >= Len(old[Len(old)].children)

\* The open node gets a child.
LEMMA AdoptFacts ==
  ASSUME NEW stack, NEW child, IsStack(stack), Len(stack) >= 1
  PROVE  /\ Grows(stack, Adopt(stack, child))
         /\ Adopt(stack, child)[Len(stack)].children = Append(stack[Len(stack)].children, child)
<1>1. PICK n \in Nat : n = Len(stack) /\ n \in 1 .. n /\ stack = [i \in 1 .. n |-> stack[i]]
  BY SequenceFacts DEF IsStack
<1>2. PICK f : f = stack[n] /\ IsFrame(f)
  BY <1>1 DEF IsStack
<1>3. PICK cs : cs = Append(f.children, child)
  OBVIOUS
<1>4. IsSequence(cs) /\ Len(cs) = Len(f.children) + 1 /\ Len(f.children) \in Nat
  BY <1>2, <1>3, AppendFacts, SequenceFacts DEF IsFrame
<1>5. PICK r : r = Adopt(stack, child)
  OBVIOUS
<1>6. r = [stack EXCEPT ![n] = [f EXCEPT !.children = cs]]
  BY <1>1, <1>2, <1>3, <1>5 DEF Adopt
<1>7. [f EXCEPT !.children = cs] = Frame(f.kind, cs)
  BY <1>2 DEF IsFrame, Frame
<1>8. r = [i \in 1 .. n |-> IF i = n THEN Frame(f.kind, cs) ELSE stack[i]]
  BY <1>1, <1>6, <1>7
<1>9. IsSequence(r) /\ Len(r) = n
  BY <1>8, SequenceOf
<1>10. r[n] = Frame(f.kind, cs) /\ \A i \in 1 .. n - 1 : r[i] = stack[i]
  BY <1>1, <1>8
<1>11. IsFrame(Frame(f.kind, cs)) /\ Frame(f.kind, cs).children = cs
  BY <1>4 DEF IsFrame, Frame
<1>12. IsStack(r)
  <2>1. \A i \in 1 .. n : i = n \/ i \in 1 .. n - 1
    BY <1>1
  <2>2. \A i \in 1 .. n - 1 : i \in 1 .. n /\ IsFrame(stack[i])
    <3>1. \A i \in 1 .. n - 1 : i \in 1 .. n
      BY <1>1
    <3> QED BY <1>1, <3>1 DEF IsStack
  <2> QED BY <1>9, <1>10, <1>11, <2>1, <2>2 DEF IsStack
<1>13. Len(cs) >= Len(f.children)
  BY <1>4
<1> QED BY <1>1, <1>2, <1>3, <1>5, <1>9, <1>10, <1>11, <1>12, <1>13 DEF Grows

\* Nothing happens.
LEMMA GrowsSelf ==
  ASSUME NEW stack, IsStack(stack), Len(stack) >= 1
  PROVE  Grows(stack, stack)
<1>1. Len(stack) \in 1 .. Len(stack)
  BY SequenceFacts DEF IsStack
<1>2. Len(stack[Len(stack)].children) \in Nat
  BY <1>1, SequenceFacts DEF IsStack, IsFrame
<1> QED BY <1>2 DEF Grows

\* The open node gets more children and more again.
LEMMA GrowsOn ==
  ASSUME NEW s, NEW t, NEW u, IsStack(s), Len(s) >= 1, Grows(s, t), Grows(t, u)
  PROVE  Grows(s, u)
<1>1. PICK n \in Nat : n = Len(s) /\ n \in 1 .. n
  BY SequenceFacts DEF IsStack
<1>2. Len(t) = n /\ Len(u) = n /\ IsStack(t) /\ IsStack(u)
  BY <1>1 DEF Grows
<1>3. Len(s[n].children) \in Nat /\ Len(t[n].children) \in Nat /\ Len(u[n].children) \in Nat
  <2>1. IsFrame(s[n]) /\ IsFrame(t[n]) /\ IsFrame(u[n])
    BY <1>1, <1>2 DEF IsStack
  <2> QED BY <2>1, SequenceFacts DEF IsFrame
<1>4. Len(t[n].children) >= Len(s[n].children) /\ Len(u[n].children) >= Len(t[n].children)
  BY <1>1, <1>2 DEF Grows
<1>5. Len(u[n].children) >= Len(s[n].children)
  <2>1. PICK k, l, m \in Nat : k = Len(s[n].children) /\ l = Len(t[n].children) /\ m = Len(u[n].children)
    BY <1>3
  <2>2. l >= k /\ m >= l
    BY <1>4, <2>1
  <2>3. m >= k
    BY <2>2
  <2> QED BY <2>1, <2>3
<1>6. \A i \in 1 .. n - 1 : u[i] = s[i]
  BY <1>1, <1>2 DEF Grows
<1> QED BY <1>1, <1>2, <1>5, <1>6 DEF Grows

\* A token is a child of the open node.
LEMMA TokenFacts ==
  ASSUME NEW x, NEW t, IsBuilder(x), Len(x.stack) >= 1
  PROVE  IsBuilder(Token(x, t)) /\ Grows(x.stack, Token(x, t).stack)
<1>1. PICK leaves : leaves = Intern(x.leaves, t)
  OBVIOUS
<1>2. PICK stack : stack = Adopt(x.stack, Leaf(Handle(leaves, t)))
  OBVIOUS
<1>3. Token(x, t) = [leaves |-> leaves, nodes |-> x.nodes, stack |-> stack]
  <2>1. Token(x, t) = [x EXCEPT !.leaves = leaves, !.stack = stack]
    BY <1>1, <1>2 DEF Token
  <2> QED BY <2>1 DEF IsBuilder
<1>4. Grows(x.stack, stack)
  BY <1>2, AdoptFacts DEF IsBuilder
<1> QED BY <1>3, <1>4 DEF IsBuilder, Grows

\* So are the tokens that are emitted.
LEMMA EmitFacts ==
  ASSUME NEW x, NEW s, IsSequence(s), IsBuilder(x), Len(x.stack) >= 1
  PROVE  IsBuilder(Emitted(x, s)) /\ Grows(x.stack, Emitted(x, s).stack)
<1>1. PICK f : /\ f[0] = x /\ \A i \in 1 .. Len(s) : f[i] = Token(f[i - 1], s[i])
               /\ Emitted(x, s) = f[Len(s)]
  BY FoldIsIteration
<1>2. Len(s) \in Nat
  BY SequenceFacts
<1> DEFINE Good(i) == IsBuilder(f[i]) /\ Grows(x.stack, f[i].stack)
           T == {i \in 0 .. Len(s) : ~Good(i)}
<1>3. Good(0)
  BY <1>1, GrowsSelf DEF IsBuilder
<1>4. T = {}
  <2> SUFFICES ASSUME T # {}
               PROVE  FALSE
    OBVIOUS
  <2>1. T \in SUBSET Nat
    BY <1>2
  <2>2. PICK i \in T : \A j \in T : i <= j
    BY <2>1, LeastElement
  <2>3. i # 0
    BY <1>3
  <2>4. i \in 1 .. Len(s) /\ i - 1 \in 0 .. Len(s) /\ ~(i <= i - 1)
    BY <1>2, <2>3
  <2>5. PICK y : y = f[i - 1]
    OBVIOUS
  <2>6. IsBuilder(y) /\ Grows(x.stack, y.stack)
    <3>1. Good(i - 1)
      BY <2>2, <2>4
    <3> QED BY <2>5, <3>1
  <2>7. f[i] = Token(y, s[i])
    BY <1>1, <2>4, <2>5
  <2>8. Len(y.stack) >= 1
    BY <2>6 DEF Grows
  <2>9. IsBuilder(Token(y, s[i])) /\ Grows(y.stack, Token(y, s[i]).stack)
    BY <2>6, <2>8, TokenFacts
  <2>10. Grows(x.stack, Token(y, s[i]).stack)
    BY <2>6, <2>9, GrowsOn DEF IsBuilder
  <2>11. Good(i)
    BY <2>7, <2>9, <2>10
  <2> QED BY <2>11
<1>5. Good(Len(s))
  BY <1>2, <1>4
<1> QED BY <1>1, <1>5

\* A frame for a node that has no children yet.
LEMMA StartNodeFacts ==
  ASSUME NEW x, NEW kind, IsBuilder(x)
  PROVE  /\ IsBuilder(StartNode(x, kind)) /\ Len(StartNode(x, kind).stack) = Len(x.stack) + 1
         /\ \A i \in 1 .. Len(x.stack) : StartNode(x, kind).stack[i] = x.stack[i]
         /\ StartNode(x, kind).stack[Len(x.stack) + 1].children = <<>>
<1>1. PICK stack : stack = Append(x.stack, Frame(kind, <<>>))
  OBVIOUS
<1>2. StartNode(x, kind) = [leaves |-> x.leaves, nodes |-> x.nodes, stack |-> stack]
  <2>1. StartNode(x, kind) = [x EXCEPT !.stack = stack]
    BY <1>1 DEF StartNode
  <2> QED BY <2>1 DEF IsBuilder
<1>3. /\ IsSequence(stack) /\ Len(stack) = Len(x.stack) + 1
      /\ \A i \in 1 .. Len(x.stack) : stack[i] = x.stack[i]
      /\ stack[Len(x.stack) + 1] = Frame(kind, <<>>)
  BY <1>1, AppendFacts DEF IsBuilder, IsStack
<1>4. IsFrame(Frame(kind, <<>>)) /\ Frame(kind, <<>>).children = <<>>
  BY EmptyIsSequence DEF IsFrame, Frame
<1>5. IsStack(stack)
  <2>1. Len(x.stack) \in Nat
    BY SequenceFacts DEF IsBuilder, IsStack
  <2>2. \A i \in 1 .. Len(x.stack) + 1 : i \in 1 .. Len(x.stack) \/ i = Len(x.stack) + 1
    BY <2>1
  <2> QED BY <1>3, <1>4, <2>2 DEF IsBuilder, IsStack
<1> QED BY <1>2, <1>3, <1>4, <1>5 DEF IsBuilder

\* The frame of a node that is finished is gone, and the node is a child
\* of the next one.
LEMMA FinishNodeFacts ==
  ASSUME NEW x, IsBuilder(x), Len(x.stack) >= 2
  PROVE  \E h : LET n == Len(x.stack) - 1
                    y == FinishNode(x)
                IN  /\ IsBuilder(y) /\ Len(y.stack) = n
                    /\ \A i \in 1 .. n - 1 : y.stack[i] = x.stack[i]
                    /\ y.stack[n].children = Append(x.stack[n].children, Inner(h))
<1>1. PICK node, nodes : /\ node = [kind |-> Top(x).kind, children |-> Top(x).children,
                                    width |-> TotalWidth(x, Top(x).children)]
                         /\ nodes = Intern(x.nodes, node)
  OBVIOUS
<1>2. PICK h : h = Handle(nodes, node)
  OBVIOUS
<1>3. PICK n \in Nat : n = Len(x.stack) - 1 /\ n >= 1 /\ n \in 0 .. Len(x.stack) /\ n \in 1 .. n
  <2>1. PICK k \in Nat : k = Len(x.stack)
    BY SequenceFacts DEF IsBuilder, IsStack
  <2>2. k - 1 \in Nat /\ k - 1 >= 1 /\ k - 1 \in 0 .. k /\ k - 1 \in 1 .. k - 1
    BY <2>1
  <2> QED BY <2>1, <2>2
<1>4. PICK front : front = Front(x.stack)
  OBVIOUS
<1>5. IsSequence(front) /\ Len(front) = n /\ \A i \in 1 .. n : front[i] = x.stack[i]
  BY <1>3, <1>4, PrefixFacts DEF IsBuilder, IsStack, Front
<1>6. IsStack(front)
  <2>1. \A i \in 1 .. n : i \in 1 .. Len(x.stack)
    BY <1>3
  <2> QED BY <1>5, <2>1 DEF IsBuilder, IsStack
<1>7. PICK stack : stack = Adopt(front, Inner(h))
  OBVIOUS
<1>8. FinishNode(x) = [leaves |-> x.leaves, nodes |-> nodes, stack |-> stack]
  <2>1. FinishNode(x) = [x EXCEPT !.nodes = nodes, !.stack = stack]
    BY <1>1, <1>2, <1>4, <1>7 DEF FinishNode
  <2> QED BY <2>1 DEF IsBuilder
<1>9. Grows(front, stack) /\ stack[n].children = Append(front[n].children, Inner(h))
  BY <1>3, <1>5, <1>6, <1>7, AdoptFacts
<1>10. IsStack(stack) /\ Len(stack) = n /\ \A i \in 1 .. n - 1 : stack[i] = front[i]
  BY <1>5, <1>9 DEF Grows
<1>11. \A i \in 1 .. n - 1 : stack[i] = x.stack[i]
  BY <1>3, <1>5, <1>10
<1>12. stack[n].children = Append(x.stack[n].children, Inner(h))
  BY <1>3, <1>5, <1>9
<1>13. IsBuilder(FinishNode(x)) /\ FinishNode(x).stack = stack
  BY <1>8, <1>10 DEF IsBuilder
<1> QED BY <1>3, <1>10, <1>11, <1>12, <1>13
-----------------------------------------------------------------------------
(***************************************************************************)
(* What is still to do, when d nodes are open (the base is one of them)    *)
(* and the checkpoints were taken at the depths m: the rest of a function, *)
(* then the end of its node or of what it wraps, then what its caller has  *)
(* still to do.                                                            *)
(***************************************************************************)
Level(u) == Plain(u) \/ \E v, w : Plain(v) /\ ImportRest(w) /\ u = v \o w

Layer(Q, t, d, m) ==
  /\ IsSequence(m) /\ d \in Nat
  /\ \A i \in 1 .. Len(m) : m[i] \in Nat /\ m[i] <= d
  /\ \/ t = <<>> /\ d = 1 /\ m = <<>>
     \/ /\ d >= 2 /\ \A i \in 1 .. Len(m) : m[i] < d
        /\ \E u, r : Level(u) /\ t = u \o Cons(Close, r) /\ IsSequence(r) /\ <<r, d - 1, m>> \in Q
     \/ /\ d >= 2
        /\ \E u, r, m0 : /\ Plain(u) /\ t = u \o Cons(Wrap, r) /\ IsSequence(r)
                         /\ IsSequence(m0) /\ m = Append(m0, d) /\ <<r, d, m0>> \in Q

Layers(Q) == \A t, d, m : <<t, d, m>> \in Q => Layer(Q, t, d, m)
Fits(t, d, m) == \E Q : Layers(Q) /\ <<t, d, m>> \in Q

\* What is to be done before the innermost node, or what is wrapped, ends.
ClosesAt(t, d, m) ==
  /\ d >= 2 /\ \A i \in 1 .. Len(m) : m[i] < d
  /\ \E u, r : Level(u) /\ t = u \o Cons(Close, r) /\ Fits(r, d - 1, m)
WrapsAt(t, d, m) ==
  /\ d >= 2
  /\ \E u, r, m0 : /\ Plain(u) /\ t = u \o Cons(Wrap, r)
                   /\ IsSequence(m0) /\ m = Append(m0, d) /\ Fits(r, d, m0)

\* What is left of a function is a sequence.
LEMMA LevelSequence ==
  ASSUME NEW u, Level(u)
  PROVE  IsSequence(u)
BY PlainSequence, ImportRestSequence, ConcatFacts DEF Level

\* Something plain may come first.
LEMMA LevelConcat ==
  ASSUME NEW u, NEW s, Plain(u), Level(s)
  PROVE  Level(u \o s)
<1>1. CASE Plain(s)
  BY <1>1, PlainConcat DEF Level
<1>2. CASE \E v, w : Plain(v) /\ ImportRest(w) /\ s = v \o w
  <2>1. PICK v, w : Plain(v) /\ ImportRest(w) /\ s = v \o w
    BY <1>2
  <2>2. IsSequence(u) /\ IsSequence(v) /\ IsSequence(w)
    BY <2>1, PlainSequence, ImportRestSequence
  <2>3. (u \o v) \o w = u \o (v \o w)
    BY <2>2, ConcatAssociates
  <2>4. Plain(u \o v)
    BY <2>1, PlainConcat
  <2>5. PICK uv : uv = u \o v
    OBVIOUS
  <2>6. u \o s = uv \o w /\ Plain(uv)
    BY <2>1, <2>3, <2>4, <2>5
  <2> QED BY <2>1, <2>6 DEF Level
<1> QED BY <1>1, <1>2 DEF Level

\* What is below fits in a larger set too.
LEMMA LayerMore ==
  ASSUME NEW Q, NEW R, Q \subseteq R, NEW t, NEW d, NEW m, Layer(Q, t, d, m)
  PROVE  Layer(R, t, d, m)
BY DEF Layer

\* What fits what fits.
LEMMA FitsWith ==
  ASSUME NEW Q, Layers(Q), NEW t, NEW d, NEW m, Layer(Q, t, d, m)
  PROVE  Fits(t, d, m)
<1> DEFINE R == Q \cup {<<t, d, m>>}
<1>1. Q \subseteq R /\ <<t, d, m>> \in R
  OBVIOUS
<1>2. ASSUME NEW t1, NEW d1, NEW m1, <<t1, d1, m1>> \in R
      PROVE  Layer(R, t1, d1, m1)
  <2>1. CASE <<t1, d1, m1>> \in Q
    <3>1. Layer(Q, t1, d1, m1)
      BY <2>1 DEF Layers
    <3> HIDE DEF R
    <3> QED BY <1>1, <3>1, LayerMore
  <2>2. CASE <<t1, d1, m1>> = <<t, d, m>>
    <3>1. t1 = t /\ d1 = d /\ m1 = m
      BY <2>2
    <3> HIDE DEF R
    <3> QED BY <1>1, <3>1, LayerMore
  <2> QED BY <1>2, <2>1, <2>2
<1> HIDE DEF R
<1>3. Layers(R)
  BY <1>2 DEF Layers
<1> QED BY <1>1, <1>3 DEF Fits

\* Nothing is to do when only the base is open.
LEMMA FitsEnd == Fits(<<>>, 1, <<>>)
<1>1. Layers({}) /\ Layer({}, <<>>, 1, <<>>)
  BY EmptyIsSequence DEF Layers, Layer
<1> QED BY <1>1, FitsWith

\* What fits ends a node, or what is wrapped, and what follows fits.
LEMMA FitsIsLayer ==
  ASSUME NEW t, NEW d, NEW m, Fits(t, d, m)
  PROVE  /\ IsSequence(t) /\ IsSequence(m) /\ d \in Nat
         /\ \A i \in 1 .. Len(m) : m[i] \in Nat /\ m[i] <= d
         /\ (t = <<>> /\ d = 1 /\ m = <<>>) \/ ClosesAt(t, d, m) \/ WrapsAt(t, d, m)
<1>1. PICK Q : Layers(Q) /\ <<t, d, m>> \in Q
  BY DEF Fits
<1>2. Layer(Q, t, d, m)
  BY <1>1 DEF Layers
<1>3. \A t1, d1, m1 : <<t1, d1, m1>> \in Q => Fits(t1, d1, m1)
  BY <1>1 DEF Fits
<1>4. IsSequence(m) /\ d \in Nat /\ \A i \in 1 .. Len(m) : m[i] \in Nat /\ m[i] <= d
  BY <1>2 DEF Layer
<1>5. CASE t = <<>> /\ d = 1 /\ m = <<>>
  BY <1>4, <1>5, EmptyIsSequence
<1>6. CASE /\ d >= 2 /\ \A i \in 1 .. Len(m) : m[i] < d
           /\ \E u, r : Level(u) /\ t = u \o Cons(Close, r) /\ IsSequence(r) /\ <<r, d - 1, m>> \in Q
  <2>1. PICK u, r : Level(u) /\ t = u \o Cons(Close, r) /\ IsSequence(r) /\ <<r, d - 1, m>> \in Q
    BY <1>6
  <2>2. Fits(r, d - 1, m)
    BY <1>3, <2>1
  <2>3. PICK c : c = Cons(Close, r)
    OBVIOUS
  <2>4. IsSequence(c) /\ IsSequence(u)
    BY <2>1, <2>3, ConsFacts, LevelSequence
  <2>5. IsSequence(t)
    BY <2>1, <2>3, <2>4, ConcatFacts
  <2>6. ClosesAt(t, d, m)
    BY <1>6, <2>1, <2>2 DEF ClosesAt
  <2> QED BY <1>4, <2>5, <2>6
<1>7. CASE /\ d >= 2
           /\ \E u, r, m0 : /\ Plain(u) /\ t = u \o Cons(Wrap, r) /\ IsSequence(r)
                            /\ IsSequence(m0) /\ m = Append(m0, d) /\ <<r, d, m0>> \in Q
  <2>1. PICK u, r, m0 : /\ Plain(u) /\ t = u \o Cons(Wrap, r) /\ IsSequence(r)
                        /\ IsSequence(m0) /\ m = Append(m0, d) /\ <<r, d, m0>> \in Q
    BY <1>7
  <2>2. Fits(r, d, m0)
    BY <1>3, <2>1
  <2>3. PICK c : c = Cons(Wrap, r)
    OBVIOUS
  <2>4. IsSequence(c) /\ IsSequence(u)
    BY <2>1, <2>3, ConsFacts, PlainSequence
  <2>5. IsSequence(t)
    BY <2>1, <2>3, <2>4, ConcatFacts
  <2>6. WrapsAt(t, d, m)
    BY <1>7, <2>1, <2>2 DEF WrapsAt
  <2> QED BY <1>4, <2>5, <2>6
<1> QED BY <1>2, <1>5, <1>6, <1>7 DEF Layer

\* What is left of a function, and the end of its node.
LEMMA FitsClose ==
  ASSUME NEW u, NEW r, NEW d \in Nat, NEW m, d >= 2, Level(u), Fits(r, d - 1, m)
  PROVE  Fits(u \o Cons(Close, r), d, m)
<1>1. PICK Q : Layers(Q) /\ <<r, d - 1, m>> \in Q
  BY DEF Fits
<1>2. IsSequence(r) /\ IsSequence(m) /\ \A i \in 1 .. Len(m) : m[i] \in Nat /\ m[i] <= d - 1
  BY FitsIsLayer
<1>3. \A i \in 1 .. Len(m) : m[i] \in Nat /\ m[i] <= d /\ m[i] < d
  BY <1>2
<1>4. PICK t : t = u \o Cons(Close, r)
  OBVIOUS
<1>5. Layer(Q, t, d, m)
  BY <1>1, <1>2, <1>3, <1>4 DEF Layer
<1> QED BY <1>1, <1>4, <1>5, FitsWith

\* What is left, and the end of what is wrapped.
LEMMA FitsWrap ==
  ASSUME NEW u, NEW r, NEW d \in Nat, NEW m, d >= 2, Plain(u), Fits(r, d, m)
  PROVE  Fits(u \o Cons(Wrap, r), d, Append(m, d))
<1>1. PICK Q : Layers(Q) /\ <<r, d, m>> \in Q
  BY DEF Fits
<1>2. IsSequence(r) /\ IsSequence(m) /\ \A i \in 1 .. Len(m) : m[i] \in Nat /\ m[i] <= d
  BY FitsIsLayer
<1>3. PICK m1 : m1 = Append(m, d)
  OBVIOUS
<1>4. /\ IsSequence(m1) /\ Len(m1) = Len(m) + 1 /\ Len(m) \in Nat
      /\ \A i \in 1 .. Len(m) : m1[i] = m[i]
      /\ m1[Len(m) + 1] = d
  BY <1>2, <1>3, AppendFacts, SequenceFacts
<1>5. \A i \in 1 .. Len(m1) : m1[i] \in Nat /\ m1[i] <= d
  <2>1. \A i \in 1 .. Len(m1) : i \in 1 .. Len(m) \/ i = Len(m) + 1
    BY <1>4
  <2> QED BY <1>2, <1>4, <2>1
<1>6. PICK t : t = u \o Cons(Wrap, r)
  OBVIOUS
<1>7. Layer(Q, t, d, m1)
  BY <1>1, <1>2, <1>3, <1>4, <1>5, <1>6 DEF Layer
<1> QED BY <1>1, <1>3, <1>6, <1>7, FitsWith

\* Something plain may be done first.
LEMMA FitsFirst ==
  ASSUME NEW u, NEW t, NEW d, NEW m, Plain(u), Fits(t, d, m), d >= 2
  PROVE  Fits(u \o t, d, m)
<1>1. d \in Nat /\ (ClosesAt(t, d, m) \/ WrapsAt(t, d, m))
  BY FitsIsLayer
<1>2. IsSequence(u)
  BY PlainSequence
<1>3. CASE ClosesAt(t, d, m)
  <2>1. PICK s, r : Level(s) /\ t = s \o Cons(Close, r) /\ Fits(r, d - 1, m)
    BY <1>3 DEF ClosesAt
  <2>2. PICK c : c = Cons(Close, r)
    OBVIOUS
  <2>3. IsSequence(s) /\ IsSequence(c)
    BY <2>1, <2>2, LevelSequence, FitsIsLayer, ConsFacts
  <2>a. IsSequence(u) /\ IsSequence(s) /\ IsSequence(c)
    BY <1>2, <2>3
  <2>4. (u \o s) \o c = u \o (s \o c)
    <3>1. Associate(u, s, c)
      BY <2>a, TheseAssociate
    <3> QED BY <3>1 DEF Associate
  <2>5. Level(u \o s)
    BY <2>1, LevelConcat
  <2>6. PICK us : us = u \o s
    OBVIOUS
  <2>7. Fits(us \o Cons(Close, r), d, m)
    BY <1>1, <2>1, <2>5, <2>6, FitsClose
  <2> QED BY <2>1, <2>2, <2>4, <2>6, <2>7
<1>4. CASE WrapsAt(t, d, m)
  <2>1. PICK s, r, m0 : /\ Plain(s) /\ t = s \o Cons(Wrap, r)
                        /\ IsSequence(m0) /\ m = Append(m0, d) /\ Fits(r, d, m0)
    BY <1>4 DEF WrapsAt
  <2>2. PICK c : c = Cons(Wrap, r)
    OBVIOUS
  <2>3. IsSequence(s) /\ IsSequence(c)
    BY <2>1, <2>2, PlainSequence, FitsIsLayer, ConsFacts
  <2>a. IsSequence(u) /\ IsSequence(s) /\ IsSequence(c)
    BY <1>2, <2>3
  <2>4. (u \o s) \o c = u \o (s \o c)
    <3>1. Associate(u, s, c)
      BY <2>a, TheseAssociate
    <3> QED BY <3>1 DEF Associate
  <2>5. Plain(u \o s)
    BY <2>1, PlainConcat
  <2>6. PICK us : us = u \o s
    OBVIOUS
  <2>7. Fits(us \o Cons(Wrap, r), d, Append(m0, d))
    BY <1>1, <2>1, <2>5, <2>6, FitsWrap
  <2> QED BY <2>1, <2>2, <2>4, <2>6, <2>7
<1> QED BY <1>1, <1>3, <1>4
-----------------------------------------------------------------------------
(***************************************************************************)
(* The first instruction x of what is to do, the others being `rest':      *)
(* whatever the step does, what is to do then fits.                        *)
(***************************************************************************)
Proceeds(x, rest, d, m) ==
  \/ x.op \in Atoms /\ Fits(rest, d, m)
  \/ x.op = "if" /\ Fits(x.yes \o rest, d, m) /\ Fits(x.no \o rest, d, m)
  \/ /\ x.op \in {"while", "until"} /\ Fits(rest, d, m)
     /\ \A p : Fits(Append(x.body, [x EXCEPT !.last = p]) \o rest, d, m)
  \/ x.op = "open" /\ Fits(rest, d + 1, m)
  \/ x.op = "close" /\ (\A i \in 1 .. Len(m) : m[i] < d) /\ Fits(rest, d - 1, m)
  \/ x.op = "mark" /\ Fits(rest, d, Append(m, d))
  \/ x.op = "wrap" /\ \E m0 : IsSequence(m0) /\ m = Append(m0, d) /\ Fits(rest, d, m0)
  \/ /\ x.op = "return"
     /\ \E y, r : /\ y.op # "close" /\ IsSequence(r)
                  /\ rest = Cons(y, Cons(Close, r)) /\ Fits(Cons(Close, r), d, m)

MayFollow(s, d, m) == IsSequence(s) /\ \A v : Plain(v) => Fits(v \o s, d, m)

\* An instruction that is plain.
LEMMA OneProceeds ==
  ASSUME NEW x, NEW rest, NEW d, NEW m, d >= 2, PlainOne(x), Fits(rest, d, m)
  PROVE  Proceeds(x, rest, d, m)
<1>1. CASE x.op \in Atoms
  BY <1>1 DEF Proceeds
<1>2. CASE \E c, yes, no : Plain(yes) /\ Plain(no) /\ x = If(c, yes, no)
  <2>1. PICK c, yes, no : Plain(yes) /\ Plain(no) /\ x = If(c, yes, no)
    BY <1>2
  <2>2. x.op = "if" /\ x.yes = yes /\ x.no = no
    BY <2>1 DEF If
  <2>3. Fits(yes \o rest, d, m) /\ Fits(no \o rest, d, m)
    BY <2>1, FitsFirst
  <2> QED BY <2>2, <2>3 DEF Proceeds
<1>3. CASE \E c, body, p : Plain(body) /\ x \in Loops(c, body, p)
  <2>1. PICK c, body, p : Plain(body) /\ x \in Loops(c, body, p)
    BY <1>3
  <2>2. x.op \in {"while", "until"} /\ x.body = body
    BY <2>1 DEF Loops
  <2>3. ASSUME NEW q
        PROVE  Fits(Append(body, [x EXCEPT !.last = q]) \o rest, d, m)
    <3>1. PICK y : y = [x EXCEPT !.last = q]
      OBVIOUS
    <3>2. y \in Loops(c, body, q)
      BY <2>1, <3>1 DEF Loops
    <3>3. PlainOne(y)
      BY <2>1, <3>2 DEF PlainOne
    <3>4. PICK s : s = body \o <<y>>
      OBVIOUS
    <3>5. Plain(s)
      BY <2>1, <3>3, <3>4, PlainOf1, PlainConcat
    <3>6. Append(body, y) = s
      BY <2>1, <3>4, PlainSequence, AppendConcat
    <3>7. Fits(s \o rest, d, m)
      BY <3>5, FitsFirst
    <3> QED BY <3>1, <3>6, <3>7
  <2> QED BY <2>2, <2>3 DEF Proceeds
<1> QED BY <1>1, <1>2, <1>3 DEF PlainOne

\* In a sequence that is plain.
LEMMA PlainProceeds ==
  ASSUME NEW u, NEW s, NEW d \in Nat, NEW m, d >= 2, Plain(u), u # <<>>, MayFollow(s, d, m)
  PROVE  \E x, rest : IsSequence(rest) /\ u \o s = Cons(x, rest) /\ Proceeds(x, rest, d, m)
<1>1. IsSequence(s) /\ IsSequence(u)
  BY PlainSequence DEF MayFollow
<1>2. \A v : Plain(v) => IsSequence(v) /\ IsSequence(v \o s) /\ Fits(v \o s, d, m)
  BY <1>1, PlainSequence, ConcatFacts DEF MayFollow
<1>3. CASE \E x, v : Plain(v) /\ PlainOne(x) /\ u = Cons(x, v)
  <2>1. PICK x, v : Plain(v) /\ PlainOne(x) /\ u = Cons(x, v)
    BY <1>3
  <2>2. IsSequence(v)
    BY <1>2, <2>1
  <2>3. Cons(x, v) \o s = Cons(x, v \o s)
    BY <1>1, <2>2, ConsConcat
  <2>4. PICK rest : rest = v \o s
    OBVIOUS
  <2>5. Fits(rest, d, m) /\ IsSequence(rest)
    BY <1>2, <2>1, <2>4
  <2>6. Proceeds(x, rest, d, m)
    BY <2>1, <2>5, OneProceeds
  <2>7. u \o s = Cons(x, rest)
    BY <2>1, <2>3, <2>4
  <2> QED BY <2>5, <2>6, <2>7
<1>4. CASE \E kind, w, v : /\ Plain(v) /\ (Plain(w) \/ ImportRest(w))
                           /\ u = Enclosed(Open(kind), w, Close, v)
  <2>1. PICK kind, w, v : /\ Plain(v) /\ (Plain(w) \/ ImportRest(w))
                          /\ u = Enclosed(Open(kind), w, Close, v)
    BY <1>4
  <2>2. IsSequence(v) /\ IsSequence(w)
    BY <1>2, <2>1, ImportRestSequence
  <2>3. Enclosed(Open(kind), w, Close, v) \o s = Enclosed(Open(kind), w, Close, v \o s)
    BY <1>1, <2>2, EnclosedConcat
  <2>4. PICK r : r = v \o s
    OBVIOUS
  <2>5. Fits(r, d, m) /\ IsSequence(r)
    BY <1>2, <2>1, <2>4
  <2>6. Level(w)
    <3>1. CASE Plain(w)
      BY <3>1 DEF Level
    <3>2. CASE ImportRest(w)
      <4>1. <<>> \o w = w
        BY <2>2, ConcatEmpty
      <4> QED BY <3>2, <4>1, PlainEmpty DEF Level
    <3> QED BY <2>1, <3>1, <3>2
  <2>7. PICK rest : rest = w \o Cons(Close, r)
    OBVIOUS
  <2>8. Fits(rest, d + 1, m)
    <3>1. d + 1 \in Nat /\ d + 1 >= 2 /\ d + 1 - 1 = d
      OBVIOUS
    <3>2. Fits(r, d + 1 - 1, m)
      BY <2>5, <3>1
    <3> QED BY <2>6, <2>7, <3>1, <3>2, FitsClose
  <2>9. Proceeds(Open(kind), rest, d, m)
    BY <2>8 DEF Proceeds, Open
  <2>10. u \o s = Cons(Open(kind), rest)
    BY <2>1, <2>3, <2>4, <2>7 DEF Enclosed
  <2>11. IsSequence(rest)
    BY <2>8, FitsIsLayer
  <2> QED BY <2>9, <2>10, <2>11
<1>5. CASE \E w, v : Plain(w) /\ Plain(v) /\ u = Enclosed(Mark, w, Wrap, v)
  <2>1. PICK w, v : Plain(w) /\ Plain(v) /\ u = Enclosed(Mark, w, Wrap, v)
    BY <1>5
  <2>2. IsSequence(v) /\ IsSequence(w)
    BY <1>2, <2>1
  <2>3. Enclosed(Mark, w, Wrap, v) \o s = Enclosed(Mark, w, Wrap, v \o s)
    BY <1>1, <2>2, EnclosedConcat
  <2>4. PICK r : r = v \o s
    OBVIOUS
  <2>5. Fits(r, d, m) /\ IsSequence(r)
    BY <1>2, <2>1, <2>4
  <2>7. PICK rest : rest = w \o Cons(Wrap, r)
    OBVIOUS
  <2>8. Fits(rest, d, Append(m, d))
    BY <2>1, <2>5, <2>7, FitsWrap
  <2>9. Proceeds(Mark, rest, d, m)
    BY <2>8 DEF Proceeds, Mark
  <2>10. u \o s = Cons(Mark, rest)
    BY <2>1, <2>3, <2>4, <2>7 DEF Enclosed
  <2>11. IsSequence(rest)
    BY <2>8, FitsIsLayer
  <2> QED BY <2>9, <2>10, <2>11
<1> QED BY <1>3, <1>4, <1>5, PlainCases

\* In ImportName.
LEMMA ImportProceeds ==
  ASSUME NEW w, NEW r, NEW d \in Nat, NEW m, d >= 2, ImportRest(w), Fits(r, d - 1, m)
  PROVE  \E x, rest : /\ IsSequence(rest) /\ w \o Cons(Close, r) = Cons(x, rest)
                      /\ Proceeds(x, rest, d, m)
<1>1. PICK c : c = Cons(Close, r)
  OBVIOUS
<1>2. \A u : Level(u) => Fits(u \o c, d, m)
  BY <1>1, FitsClose
<1>b. IsSequence(r)
  BY FitsIsLayer
<1>3. IsSequence(c)
  BY <1>1, <1>b, ConsFacts
<1>4. Fits(c, d, m)
  <2>1. Level(<<>>)
    BY PlainEmpty DEF Level
  <2>2. <<>> \o c = c
    BY <1>3, ConcatEmpty
  <2> QED BY <1>2, <2>1, <2>2
<1>5. \A v, q : Plain(v) /\ ImportRest(q) => Fits(v \o (q \o c), d, m)
  <2> SUFFICES ASSUME NEW v, NEW q, Plain(v), ImportRest(q)
               PROVE  Fits(v \o (q \o c), d, m)
    OBVIOUS
  <2>1. IsSequence(v) /\ IsSequence(q) /\ IsSequence(c)
    BY <1>3, PlainSequence, ImportRestSequence
  <2>2. (v \o q) \o c = v \o (q \o c)
    BY SMTT(20), <2>1, ConcatAssociates
  <2>3. PICK vq : vq = v \o q
    OBVIOUS
  <2>4. Level(vq)
    BY <2>3 DEF Level
  <2>5. Fits(vq \o c, d, m)
    BY <1>2, <2>4
  <2> QED BY <2>2, <2>3, <2>5
<1>6. \A x, y : <<x, y>> = Cons(x, <<y>>)
  BY PairIs DEF Cons
<1>7. \A x : <<x>> \o c = Cons(x, c)
  BY DEF Cons
<1>8. \A x, y : <<x, y>> \o c = Cons(x, Cons(y, c))
  <2> TAKE x, y
  <2>1. PICK s : s = <<y>> /\ IsSequence(s)
    BY SingleFacts
  <2>2. Cons(x, s) \o c = Cons(x, s \o c)
    BY <1>3, <2>1, ConsConcat
  <2> QED BY <1>6, <1>7, <2>1, <2>2
<1>9. \A p : ImportRest(<<ImportSegments(p)>>) /\ ImportRest(<<ImportStep, ImportSegments(p)>>)
             /\ ImportRest(<<Return, ImportSegments(p)>>)
  BY DEF ImportRest
<1>a. Plain(<<Opt("*", Star)>>) /\ Plain(<<Bump>>) /\ Plain(NameSegment)
  <2>1. Plain(Star)
    BY BumpPlain, PlainOptBump, PlainOf2 DEF Star
  <2> QED BY <2>1, BumpPlain, NamesPlain, PlainOpt, PlainOf1
<1>10. CASE w = <<ImportStart>>
  <2>1. ImportStart.op = "if" /\ ImportStart.yes = NameSegment \o <<ImportSegments(0)>>
        /\ ImportStart.no = <<Opt("*", Star)>>
    BY DEF ImportStart, If
  <2>2. Level(NameSegment \o <<ImportSegments(0)>>)
    BY <1>9, <1>a DEF Level
  <2>3. Level(<<Opt("*", Star)>>)
    BY <1>a DEF Level
  <2>4. PICK yes, no : yes = ImportStart.yes /\ no = ImportStart.no
    OBVIOUS
  <2>5. Level(yes) /\ Level(no)
    BY <2>1, <2>2, <2>3, <2>4
  <2>6. Fits(yes \o c, d, m) /\ Fits(no \o c, d, m)
    BY <1>2, <2>5
  <2>7. Proceeds(ImportStart, c, d, m)
    BY <2>1, <2>4, <2>6 DEF Proceeds
  <2> QED BY <1>1, <1>3, <1>7, <1>10, <2>7
<1>11. ASSUME NEW p, w = <<ImportSegments(p)>>
       PROVE  \E x, rest : IsSequence(rest) /\ w \o c = Cons(x, rest) /\ Proceeds(x, rest, d, m)
  <2>1. PICK x : x = ImportSegments(p)
    OBVIOUS
  <2>2. x.op = "while" /\ x.body = <<Bump, ImportStep>>
    BY <2>1 DEF ImportSegments
  <2>3. ASSUME NEW q
        PROVE  Fits(Append(x.body, [x EXCEPT !.last = q]) \o c, d, m)
    <3>1. [x EXCEPT !.last = q] = ImportSegments(q)
      BY <2>1 DEF ImportSegments
    <3>2. PICK y : y = ImportSegments(q)
      OBVIOUS
    <3>3. PICK s : s = <<ImportStep, y>>
      OBVIOUS
    <3>4. Append(<<Bump, ImportStep>>, y) = <<Bump>> \o s
      BY <3>3
    <3>5. ImportRest(s)
      BY <1>9, <3>2, <3>3
    <3>6. PICK h : h = <<Bump>>
      OBVIOUS
    <3>7. Level(h \o s)
      BY <1>a, <3>5, <3>6 DEF Level
    <3>8. PICK hs : hs = h \o s
      OBVIOUS
    <3>9. Fits(hs \o c, d, m)
      BY <1>2, <3>7, <3>8
    <3>10. Append(x.body, [x EXCEPT !.last = q]) = hs
      BY <2>2, <3>1, <3>2, <3>4, <3>6, <3>8
    <3> QED BY <3>9, <3>10
  <2>4. Proceeds(x, c, d, m)
    BY <1>4, <2>2, <2>3 DEF Proceeds
  <2> QED BY <1>3, <1>7, <1>11, <2>1, <2>4
<1>12. ASSUME NEW p, w = <<ImportStep, ImportSegments(p)>>
       PROVE  \E x, rest : IsSequence(rest) /\ w \o c = Cons(x, rest) /\ Proceeds(x, rest, d, m)
  <2>1. PICK y : y = ImportSegments(p)
    OBVIOUS
  <2>2. PICK rest : rest = Cons(y, c)
    OBVIOUS
  <2>3. IsSequence(rest)
    BY <1>3, <2>2, ConsFacts
  <2>4. PICK x : x = ImportStep
    OBVIOUS
  <2>5. x.op = "if" /\ x.yes = NameSegment /\ x.no = <<Opt("*", Star), Return>>
    BY <2>4 DEF ImportStep, If
  <2>6. rest = <<y>> \o c
    BY <2>2 DEF Cons
  <2>7. Fits(NameSegment \o rest, d, m)
    <3>1. PICK q : q = <<y>>
      OBVIOUS
    <3>2. ImportRest(q)
      BY <1>9, <2>1, <3>1
    <3>3. Fits(NameSegment \o (q \o c), d, m)
      BY <1>5, <1>a, <3>2
    <3> QED BY <2>6, <3>1, <3>3
  <2>8. Fits(<<Opt("*", Star), Return>> \o rest, d, m)
    <3>1. PICK o : o = Opt("*", Star)
      OBVIOUS
    <3>2. PICK q : q = <<Return, y>>
      OBVIOUS
    <3>3. ImportRest(q) /\ IsSequence(q)
      BY <1>9, <2>1, <3>2, ImportRestSequence
    <3>4. PICK h : h = <<o>> /\ IsSequence(h)
      BY SingleFacts
    <3>5. Fits(h \o (q \o c), d, m)
      BY <1>5, <1>a, <3>1, <3>3, <3>4
    <3>6. q \o c = Cons(Return, rest)
      BY <1>8, <2>2, <3>2
    <3>7. PICK f : f = <<Return>> /\ IsSequence(f)
      BY SingleFacts
    <3>8. (h \o f) \o rest = h \o (f \o rest)
      BY <2>3, <3>4, <3>7, ConcatAssociates
    <3>9. f \o rest = Cons(Return, rest)
      BY <3>7 DEF Cons
    <3>10. h \o f = <<o, Return>>
      BY <3>4, <3>7, PairIs
    <3>11. <<o, Return>> \o rest = h \o (q \o c)
      BY <3>6, <3>8, <3>9, <3>10
    <3> QED BY <3>1, <3>5, <3>11
  <2>9. Proceeds(x, rest, d, m)
    BY <2>5, <2>7, <2>8 DEF Proceeds
  <2>10. w \o c = Cons(x, rest)
    BY <1>8, <1>12, <2>1, <2>2, <2>4
  <2> QED BY <2>3, <2>9, <2>10
<1>13. ASSUME NEW p, w = <<Return, ImportSegments(p)>>
       PROVE  \E x, rest : IsSequence(rest) /\ w \o c = Cons(x, rest) /\ Proceeds(x, rest, d, m)
  <2>1. PICK y : y = ImportSegments(p)
    OBVIOUS
  <2>2. PICK rest : rest = Cons(y, c)
    OBVIOUS
  <2>3. IsSequence(rest)
    BY <1>3, <2>2, ConsFacts
  <2>4. Return.op = "return" /\ y.op # "close"
    BY <2>1 DEF Return, ImportSegments
  <2>5. Proceeds(Return, rest, d, m)
    BY <1>1, <1>4, <1>b, <2>2, <2>4 DEF Proceeds
  <2>6. w \o c = Cons(Return, rest)
    BY <1>8, <1>13, <2>1, <2>2
  <2> QED BY <2>3, <2>5, <2>6
<1> QED BY <1>1, <1>10, <1>11, <1>12, <1>13 DEF ImportRest

\* Whatever fits the frames, its first instruction may be done.
LEMMA HeadProceeds ==
  ASSUME NEW t, NEW d, NEW m, d >= 2, Fits(t, d, m)
  PROVE  \E x, rest : IsSequence(rest) /\ t = Cons(x, rest) /\ Proceeds(x, rest, d, m)
<1>1. d \in Nat /\ (ClosesAt(t, d, m) \/ WrapsAt(t, d, m))
  BY FitsIsLayer
<1>2. CASE ClosesAt(t, d, m)
  <2>1. PICK u, r : Level(u) /\ t = u \o Cons(Close, r) /\ Fits(r, d - 1, m)
    BY <1>2 DEF ClosesAt
  <2>2. PICK c : c = Cons(Close, r) /\ IsSequence(r)
    BY <2>1, FitsIsLayer
  <2>3. IsSequence(c)
    BY <2>2, ConsFacts
  <2>4. \A s : Level(s) => Fits(s \o c, d, m)
    BY <1>1, <2>1, <2>2, FitsClose
  <2>5. CASE u = <<>>
    <3>1. u \o c = c
      BY <2>3, <2>5, ConcatEmpty
    <3>2. Proceeds(Close, r, d, m)
      BY <1>2, <2>1 DEF Proceeds, Close, ClosesAt
    <3> QED BY <2>1, <2>2, <3>1, <3>2
  <2>6. CASE Plain(u) /\ u # <<>>
    <3>1. MayFollow(c, d, m)
      BY <2>3, <2>4 DEF MayFollow, Level
    <3> QED BY <1>1, <2>1, <2>2, <2>6, <3>1, PlainProceeds
  <2>7. CASE \E v, w : Plain(v) /\ ImportRest(w) /\ u = v \o w
    <3>1. PICK v, w : Plain(v) /\ ImportRest(w) /\ u = v \o w
      BY <2>7
    <3>2. IsSequence(v) /\ IsSequence(w)
      BY <3>1, PlainSequence, ImportRestSequence
    <3>3. CASE v = <<>>
      <4>1. u = w
        BY <3>1, <3>2, <3>3, ConcatEmpty
      <4>2. \E x, rest : /\ IsSequence(rest) /\ w \o Cons(Close, r) = Cons(x, rest)
                         /\ Proceeds(x, rest, d, m)
        BY <1>1, <2>1, <3>1, ImportProceeds
      <4> QED BY <2>1, <4>1, <4>2
    <3>4. CASE v # <<>>
      <4>1. PICK s : s = w \o c
        OBVIOUS
      <4>2. IsSequence(s)
        BY <2>3, <3>2, <4>1, ConcatFacts
      <4>3. ASSUME NEW q, Plain(q)
            PROVE  Fits(q \o s, d, m)
        <5>1. IsSequence(q)
          BY <4>3, PlainSequence
        <5>2. (q \o w) \o c = q \o (w \o c)
          BY <2>3, <3>2, <5>1, ConcatAssociates
        <5>3. PICK qw : qw = q \o w
          OBVIOUS
        <5>4. Level(qw)
          BY <3>1, <4>3, <5>3 DEF Level
        <5>5. Fits(qw \o c, d, m)
          BY <2>4, <5>4
        <5> QED BY <4>1, <5>2, <5>3, <5>5
      <4>4. MayFollow(s, d, m)
        BY <4>2, <4>3 DEF MayFollow
      <4>5. (v \o w) \o c = v \o (w \o c)
        BY SMTT(20), <2>3, <3>2, ConcatAssociates
      <4>6. t = v \o s
        BY <2>1, <2>2, <3>1, <4>1, <4>5
      <4>7. \E x, rest : IsSequence(rest) /\ v \o s = Cons(x, rest) /\ Proceeds(x, rest, d, m)
        BY <1>1, <3>1, <3>4, <4>4, PlainProceeds
      <4> QED BY <4>6, <4>7
    <3> QED BY <3>3, <3>4
  <2> QED BY <2>1, <2>5, <2>6, <2>7 DEF Level
<1>3. CASE WrapsAt(t, d, m)
  <2>1. PICK u, r, m0 : /\ Plain(u) /\ t = u \o Cons(Wrap, r)
                        /\ IsSequence(m0) /\ m = Append(m0, d) /\ Fits(r, d, m0)
    BY <1>3 DEF WrapsAt
  <2>2. PICK c : c = Cons(Wrap, r) /\ IsSequence(r)
    BY <2>1, FitsIsLayer
  <2>3. IsSequence(c)
    BY <2>2, ConsFacts
  <2>4. CASE u = <<>>
    <3>1. u \o c = c
      BY <2>3, <2>4, ConcatEmpty
    <3>2. Proceeds(Wrap, r, d, m)
      BY <2>1 DEF Proceeds, Wrap
    <3> QED BY <2>1, <2>2, <3>1, <3>2
  <2>5. CASE u # <<>>
    <3>1. \A v : Plain(v) => Fits(v \o c, d, m)
      BY <1>1, <2>1, <2>2, FitsWrap
    <3>2. MayFollow(c, d, m)
      BY <2>3, <3>1 DEF MayFollow
    <3>3. \E x, rest : IsSequence(rest) /\ u \o c = Cons(x, rest) /\ Proceeds(x, rest, d, m)
      BY <1>1, <2>1, <2>5, <3>2, PlainProceeds
    <3> QED BY <2>1, <2>2, <3>3
  <2> QED BY <2>4, <2>5
<1> QED BY <1>1, <1>2, <1>3
-----------------------------------------------------------------------------
(***************************************************************************)
(* The invariant.                                                          *)
(***************************************************************************)
Reads == IsSequence(tokens) /\ pos \in 1 .. Len(tokens) + 1

\* Checkpoints are of children that their frames have, in order.
MarksIn(ms, stack) ==
  /\ IsSequence(ms)
  /\ \A i \in 1 .. Len(ms) :
       /\ ms[i] = [cp |-> ms[i].cp, kind |-> ms[i].kind]
       /\ ms[i].cp.frame \in 1 .. Len(stack)
       /\ ms[i].cp.n \in 0 .. Len(stack[ms[i].cp.frame].children)
  /\ \A i, j \in 1 .. Len(ms) : i <= j /\ ms[i].cp.frame = ms[j].cp.frame => ms[i].cp.n <= ms[j].cp.n

Depths(ms) == [i \in 1 .. Len(ms) |-> ms[i].cp.frame]

Before == /\ todo \in {Cons(Lex, SourceFile), SourceFile} /\ marks = <<>>
          /\ b.stack = <<Frame("base", <<>>)>>
During == /\ Len(b.stack) >= 2 /\ b.stack[1].children = <<>>
          /\ Fits(todo, Len(b.stack), Depths(marks))
After == todo = <<>> /\ MayFinish(b)

Balanced == Reads /\ IsBuilder(b) /\ MarksIn(marks, b.stack) /\ (Before \/ During \/ After)

\* The depths of the checkpoints.
LEMMA DepthsFacts ==
  ASSUME NEW ms, IsSequence(ms)
  PROVE  /\ IsSequence(Depths(ms)) /\ Len(Depths(ms)) = Len(ms)
         /\ \A i \in 1 .. Len(ms) : Depths(ms)[i] = ms[i].cp.frame
<1>1. PICK n \in Nat : n = Len(ms)
  BY SequenceFacts
<1>2. PICK f : f = [i \in 1 .. n |-> ms[i].cp.frame]
  OBVIOUS
<1>3. f = [i \in 1 .. n |-> f[i]] /\ \A i \in 1 .. n : f[i] = ms[i].cp.frame
  BY <1>2
<1>4. IsSequence(f) /\ Len(f) = n
  BY <1>3, SequenceOf
<1> QED BY <1>1, <1>2, <1>3, <1>4 DEF Depths

\* SourceFile is a node of its own.
LEMMA SourceFileIs ==
  \E body : Plain(body) /\ SourceFile = Cons(Open("SourceFile"), body \o Cons(Close, <<>>))
<1>1. Plain(<<Until("EOF", <<Member>>), EmitTrivia>>)
  BY PlainAtoms, PlainOf1, PlainOf2, PlainLoops
<1>2. PICK body : body = <<Until("EOF", <<Member>>), EmitTrivia>>
  OBVIOUS
<1>3. Plain(body) /\ IsSequence(body)
  BY <1>1, <1>2, PlainSequence
<1>4. SourceFile = Node("SourceFile", body)
  BY <1>2 DEF SourceFile
<1>5. SourceFile = Enclosed(Open("SourceFile"), body, Close, <<>>)
  BY <1>3, <1>4, NodeEncloses
<1> QED BY <1>3, <1>5 DEF Enclosed

\* It begins with that node.
LEMMA SourceFileHead ==
  IsSequence(SourceFile) /\ SourceFile # <<>> /\ Head(SourceFile) = Open("SourceFile")
<1>1. PICK body : Plain(body) /\ SourceFile = Cons(Open("SourceFile"), body \o Cons(Close, <<>>))
  BY SourceFileIs
<1>2. PICK c : c = Cons(Close, <<>>) /\ IsSequence(c)
  BY EmptyIsSequence, ConsFacts
<1>3. PICK s : s = body \o c /\ IsSequence(s)
  BY <1>1, <1>2, PlainSequence, ConcatFacts
<1> QED BY <1>1, <1>2, <1>3, ConsFacts

\* No checkpoint.
LEMMA EmptyMarks == \A stack : MarksIn(<<>>, stack) /\ Depths(<<>>) = <<>>
<1>1. Len(<<>>) = 0 /\ IsSequence(<<>>)
  BY EmptyIsSequence
<1>2. \A stack : MarksIn(<<>>, stack)
  BY <1>1 DEF MarksIn
<1>3. Depths(<<>>) = <<>>
  BY <1>1, DepthsFacts, OnlyEmpty
<1> QED BY <1>2, <1>3

\* At the beginning.
LEMMA BalancedInit == Init => Balanced
<1> SUFFICES ASSUME Init
             PROVE  Balanced
  OBVIOUS
<1>1. Reads
  BY EmptyIsSequence DEF Init, Reads
<1>2. PICK f : f = Frame("base", <<>>)
  OBVIOUS
<1>3. IsFrame(f)
  BY <1>2, EmptyIsSequence DEF IsFrame, Frame
<1>4. PICK stack : stack = <<f>>
  OBVIOUS
<1>5. IsSequence(stack) /\ Len(stack) = 1 /\ stack[1] = f
  BY <1>4, SingleFacts
<1>6. IsStack(stack)
  <2>1. \A i \in 1 .. Len(stack) : i = 1
    BY <1>5
  <2> QED BY <1>3, <1>5, <2>1 DEF IsStack
<1>7. b = [leaves |-> <<>>, nodes |-> <<>>, stack |-> stack]
  BY <1>2, <1>4 DEF Init, NewBuilder
<1>8. IsBuilder(b)
  BY <1>6, <1>7 DEF IsBuilder
<1>9. todo = Cons(Lex, SourceFile)
  BY DEF Init, Cons
<1>10. Before
  BY <1>2, <1>4, <1>7, <1>9 DEF Before, Init
<1>11. MarksIn(marks, b.stack)
  BY EmptyMarks DEF Init
<1> QED BY <1>1, <1>8, <1>10, <1>11 DEF Balanced

\* While the parser runs, x is its instruction.
LEMMA DuringProceeds ==
  ASSUME During
  PROVE  \E x, rest : /\ IsSequence(rest) /\ todo # <<>> /\ Head(todo) = x /\ Tail(todo) = rest
                      /\ todo = Cons(x, rest)
                      /\ Proceeds(x, rest, Len(b.stack), Depths(marks))
<1>1. PICK x, rest : IsSequence(rest) /\ todo = Cons(x, rest) /\ Proceeds(x, rest, Len(b.stack), Depths(marks))
  BY HeadProceeds DEF During
<1>2. Cons(x, rest) # <<>> /\ Head(Cons(x, rest)) = x /\ Tail(Cons(x, rest)) = rest
  BY <1>1, ConsFacts
<1> QED BY <1>1, <1>2

\* The first instructions: the lexer, and the start of the first node.
LEMMA BeforeHead ==
  ASSUME Before
  PROVE  todo # <<>> /\ Head(todo).op \in {"lex", "open"}
<1>1. CASE todo = Cons(Lex, SourceFile)
  <2>1. Cons(Lex, SourceFile) # <<>> /\ Head(Cons(Lex, SourceFile)) = Lex
    BY SourceFileHead, ConsFacts
  <2> QED BY <1>1, <2>1 DEF Lex
<1>2. CASE todo = SourceFile
  BY <1>2, SourceFileHead DEF Open
<1> QED BY <1>1, <1>2 DEF Before

\* The last checkpoint, if something is to be wrapped.
LEMMA LastMark ==
  ASSUME NEW ms, NEW d \in Nat, NEW m0, IsSequence(ms), IsSequence(m0), Depths(ms) = Append(m0, d)
  PROVE  /\ Len(ms) = Len(m0) + 1 /\ Len(ms) \in Nat /\ Len(m0) \in Nat /\ ms[Len(ms)].cp.frame = d
         /\ \A i \in 1 .. Len(ms) - 1 : m0[i] = ms[i].cp.frame
<1>1. /\ Len(Depths(ms)) = Len(ms)
      /\ \A i \in 1 .. Len(ms) : Depths(ms)[i] = ms[i].cp.frame
  BY DepthsFacts
<1>2. PICK m1 : m1 = Append(m0, d)
  OBVIOUS
<1>3. /\ Len(m1) = Len(m0) + 1 /\ Len(m0) \in Nat
      /\ \A i \in 1 .. Len(m0) : m1[i] = m0[i]
      /\ m1[Len(m0) + 1] = d
  BY <1>2, AppendFacts, SequenceFacts
<1>4. Len(ms) = Len(m0) + 1 /\ Len(ms) \in Nat /\ Len(ms) \in 1 .. Len(ms)
  BY <1>1, <1>2, <1>3
<1>5. ms[Len(ms)].cp.frame = d
  BY <1>1, <1>2, <1>3, <1>4
<1>6. \A i \in 1 .. Len(ms) - 1 : i \in 1 .. Len(m0) /\ i \in 1 .. Len(ms)
  BY <1>3, <1>4
<1>7. \A i \in 1 .. Len(ms) - 1 : m0[i] = ms[i].cp.frame
  BY <1>1, <1>2, <1>3, <1>6
<1> QED BY <1>3, <1>4, <1>5, <1>7

\* The invariant is why nothing panics.
LEMMA BalancedNeverPanics == Balanced => NeverPanics
<1> SUFFICES ASSUME Balanced
             PROVE  NeverPanics
  OBVIOUS
<1>1. CASE Before
  BY <1>1, BeforeHead DEF NeverPanics, Doing, Parsed
<1>2. CASE After
  BY <1>2 DEF After, NeverPanics, Doing, Parsed
<1>3. CASE During
  <2>1. PICK x, rest : /\ IsSequence(rest) /\ todo # <<>> /\ Head(todo) = x
                       /\ Proceeds(x, rest, Len(b.stack), Depths(marks))
    BY <1>3, DuringProceeds
  <2>2. Len(b.stack) \in Nat /\ Len(b.stack) >= 2
    BY <1>3, SequenceFacts DEF During, Balanced, IsBuilder, IsStack
  <2>3. Doing("close") => MayFinishNode(b)
    BY <2>2 DEF MayFinishNode
  <2>4. ASSUME Doing("wrap")
        PROVE  MayStartNodeAt(b, Last(marks).cp)
    <3>1. x.op = "wrap"
      BY <2>1, <2>4 DEF Doing
    <3>2. PICK m0 : IsSequence(m0) /\ Depths(marks) = Append(m0, Len(b.stack))
      BY <2>1, <3>1 DEF Proceeds, Atoms
    <3>3. Len(marks) = Len(m0) + 1 /\ Len(m0) \in Nat /\ marks[Len(marks)].cp.frame = Len(b.stack)
      BY <2>2, <3>2, LastMark DEF Balanced, MarksIn
    <3>4. Len(marks) \in 1 .. Len(marks)
      BY <3>3
    <3>5. marks[Len(marks)].cp.n \in 0 .. Len(b.stack[Len(b.stack)].children)
      BY <3>3, <3>4 DEF Balanced, MarksIn
    <3>6. Len(b.stack[Len(b.stack)].children) \in Nat
      <4>1. IsFrame(b.stack[Len(b.stack)])
        BY <2>2 DEF Balanced, IsBuilder, IsStack
      <4> QED BY <4>1, SequenceFacts DEF IsFrame
    <3>7. marks[Len(marks)].cp.n <= Len(b.stack[Len(b.stack)].children)
      BY <3>5, <3>6
    <3> QED BY <3>3, <3>7 DEF MayStartNodeAt, Last, Top
  <2> QED BY <2>1, <2>3, <2>4 DEF NeverPanics, Parsed
<1> QED BY <1>1, <1>2, <1>3 DEF Balanced
-----------------------------------------------------------------------------
(***************************************************************************)
(* Each step keeps the invariant.                                          *)
(***************************************************************************)
LEMMA ProceedIs ==
  ASSUME NEW s, Proceed(s), NEW rest, Tail(todo) = rest
  PROVE  todo' = s \o rest
BY DEF Proceed

\* An instruction that is done.
LEMMA ProceedNothing ==
  ASSUME Proceed(<<>>), NEW rest, IsSequence(rest), Tail(todo) = rest
  PROVE  todo' = rest
<1>1. <<>> \o rest = rest
  BY ConcatEmpty
<1> QED BY <1>1 DEF Proceed

\* The frames.
LEMMA StackFacts ==
  ASSUME NEW x, IsBuilder(x)
  PROVE  /\ IsStack(x.stack) /\ Len(x.stack) \in Nat
         /\ \A i \in 1 .. Len(x.stack) : IsSequence(x.stack[i].children) /\ Len(x.stack[i].children) \in Nat
BY SequenceFacts DEF IsBuilder, IsStack, IsFrame

\* Frames that have got more children.
LEMMA MarksInMore ==
  ASSUME NEW ms, NEW old, NEW new, MarksIn(ms, old), Len(old) \in Nat, Len(new) \in Nat,
         \A i \in 1 .. Len(ms) :
           LET f == ms[i].cp.frame
           IN  /\ f \in 1 .. Len(new)
               /\ Len(old[f].children) \in Nat /\ Len(new[f].children) \in Nat
               /\ Len(new[f].children) >= Len(old[f].children)
  PROVE  MarksIn(ms, new)
<1>1. ASSUME NEW i \in 1 .. Len(ms)
      PROVE  /\ ms[i] = [cp |-> ms[i].cp, kind |-> ms[i].kind]
             /\ ms[i].cp.frame \in 1 .. Len(new)
             /\ ms[i].cp.n \in 0 .. Len(new[ms[i].cp.frame].children)
  <2>1. PICK f, n : f = ms[i].cp.frame /\ n = ms[i].cp.n
    OBVIOUS
  <2>2. n \in 0 .. Len(old[f].children) /\ ms[i] = [cp |-> ms[i].cp, kind |-> ms[i].kind]
    BY <2>1 DEF MarksIn
  <2>3. /\ f \in 1 .. Len(new)
        /\ Len(old[f].children) \in Nat /\ Len(new[f].children) \in Nat
        /\ Len(new[f].children) >= Len(old[f].children)
    BY <2>1
  <2>4. n \in 0 .. Len(new[f].children)
    BY <2>2, <2>3
  <2> QED BY <2>1, <2>2, <2>3, <2>4
<1> QED BY <1>1 DEF MarksIn

\* A step that leaves the builder and the checkpoints alone.
LEMMA StandsStill ==
  ASSUME Balanced, During, UNCHANGED <<tokens, pos, marks, b>>, Fits(todo', Len(b.stack), Depths(marks))
  PROVE  Balanced'
<1>1. During'
  BY DEF During
<1> QED BY <1>1 DEF Balanced, Reads

\* Trivia end at the next significant token, or with the tokens.
LEMMA BeforeSignificantFacts ==
  ASSUME Reads
  PROVE  BeforeSignificant \in pos - 1 .. Len(tokens)
<1>1. PICK k \in Nat, p \in Nat : k = Len(tokens) /\ p = pos /\ p >= 1 /\ p <= k + 1
  BY SequenceFacts DEF Reads
<1>2. PICK S : S = {n \in p .. k : ~IsTrivia(tokens[n])} \cup {k + 1}
  OBVIOUS
<1>3. S \in SUBSET Nat /\ k + 1 \in S /\ \A i \in S : i >= p /\ i <= k + 1
  BY <1>1, <1>2
<1>4. Min(S) \in S
  BY <1>3, LeastIs
<1>5. BeforeSignificant = Min(S) - 1
  BY <1>1, <1>2 DEF BeforeSignificant
<1>6. PICK m : m = Min(S)
  OBVIOUS
<1>7. m \in Nat /\ m >= p /\ m <= k + 1
  BY <1>3, <1>4, <1>6
<1>8. m - 1 \in p - 1 .. k
  BY <1>1, <1>7
<1> QED BY <1>1, <1>5, <1>6, <1>8

\* Emitting moves the position and adds children to the open node.
LEMMA EmitStep ==
  ASSUME Reads, IsBuilder(b), Len(b.stack) >= 1, NEW n \in pos - 1 .. Len(tokens), Emit(n)
  PROVE  Reads' /\ IsBuilder(b') /\ Grows(b.stack, b'.stack) /\ marks' = marks
<1>1. PICK s : s = SubSeq(tokens, pos, n)
  OBVIOUS
<1>2. IsSequence(s)
  BY <1>1, SubSeqFacts DEF Reads
<1>3. b' = Emitted(b, s)
  BY <1>1 DEF Emit, Emitted
<1>4. IsBuilder(Emitted(b, s)) /\ Grows(b.stack, Emitted(b, s).stack)
  BY <1>2, EmitFacts
<1>5. PICK k \in Nat, p \in Nat : k = Len(tokens) /\ p = pos /\ p >= 1
  BY SequenceFacts DEF Reads
<1>6. n + 1 \in 1 .. k + 1
  BY <1>5
<1>7. Reads'
  BY <1>5, <1>6 DEF Reads, Emit
<1> QED BY <1>3, <1>4, <1>7 DEF Emit

\* Tokens are emitted while a node is open.
LEMMA EmitBalanced ==
  ASSUME Balanced, During, NEW n \in pos - 1 .. Len(tokens), Emit(n),
         Fits(todo', Len(b.stack), Depths(marks))
  PROVE  Balanced'
<1>1. Len(b.stack) \in Nat /\ Len(b.stack) >= 2
  BY StackFacts DEF Balanced, During
<1>2. Reads' /\ IsBuilder(b') /\ Grows(b.stack, b'.stack) /\ marks' = marks
  BY <1>1, EmitStep DEF Balanced
<1>3. PICK d \in Nat : d = Len(b.stack) /\ d >= 2 /\ 1 \in 1 .. d - 1 /\ d \in 1 .. d
  BY <1>1
<1>4. Len(b'.stack) = d /\ \A i \in 1 .. d - 1 : b'.stack[i] = b.stack[i]
  BY <1>2, <1>3 DEF Grows
<1>5. Len(b'.stack[d].children) >= Len(b.stack[d].children)
  BY <1>2, <1>3 DEF Grows
<1>6. \A i \in 1 .. d : Len(b.stack[i].children) \in Nat /\ Len(b'.stack[i].children) \in Nat
  BY <1>2, <1>3, <1>4, StackFacts DEF Balanced
<1>7. \A i \in 1 .. d : Len(b'.stack[i].children) >= Len(b.stack[i].children)
  <2> TAKE i \in 1 .. d
  <2>1. CASE i = d
    BY <1>5, <2>1
  <2>2. CASE i # d
    <3>1. i \in 1 .. d - 1
      BY <1>3, <2>2
    <3>2. b'.stack[i] = b.stack[i]
      BY <1>4, <3>1
    <3> QED BY <1>6, <3>2
  <2> QED BY <2>1, <2>2
<1>8. MarksIn(marks, b'.stack)
  <2>1. MarksIn(marks, b.stack) /\ \A i \in 1 .. Len(marks) : marks[i].cp.frame \in 1 .. d
    BY <1>3 DEF Balanced, MarksIn
  <2>2. Len(b'.stack) = d /\ Len(b.stack) = d /\ d \in Nat
    BY <1>3, <1>4
  <2>3. \A i \in 1 .. Len(marks) :
          LET f == marks[i].cp.frame
          IN  /\ f \in 1 .. Len(b'.stack)
              /\ Len(b.stack[f].children) \in Nat /\ Len(b'.stack[f].children) \in Nat
              /\ Len(b'.stack[f].children) >= Len(b.stack[f].children)
    BY <1>6, <1>7, <2>1, <2>2
  <2> QED BY <2>1, <2>2, <2>3, MarksInMore
<1>9. During'
  BY <1>2, <1>3, <1>4 DEF During
<1> QED BY <1>2, <1>8, <1>9 DEF Balanced

\* Only the base is open, and nothing has been parsed yet.
LEMMA BeforeNext ==
  ASSUME Balanced, Before, Next
  PROVE  Balanced'
<1>1. todo # <<>> /\ Head(todo).op \in {"lex", "open"}
  BY BeforeHead
<1>2. CASE todo = Cons(Lex, SourceFile)
  <2>1. Head(todo) = Lex /\ Tail(todo) = SourceFile /\ IsSequence(SourceFile)
    <3>1. Head(Cons(Lex, SourceFile)) = Lex /\ Tail(Cons(Lex, SourceFile)) = SourceFile
      BY SourceFileHead, ConsFacts
    <3> QED BY <1>2, <3>1, SourceFileHead
  <2>2. Head(todo).op = "lex"
    BY <2>1 DEF Lex
  <2>3. CASE LexToken
    <3>1. PICK t : tokens' = Append(tokens, t) /\ UNCHANGED <<pos, todo, marks, b>>
      BY <2>3 DEF LexToken
    <3>2. IsSequence(tokens') /\ Len(tokens') = Len(tokens) + 1 /\ Len(tokens) \in Nat
      BY <3>1, AppendFacts, SequenceFacts DEF Balanced, Reads
    <3>3. Reads'
      BY <3>1, <3>2 DEF Balanced, Reads
    <3>4. Before'
      BY <3>1 DEF Before
    <3> QED BY <3>1, <3>3, <3>4 DEF Balanced
  <2>4. CASE LexEOF
    <3>1. todo' = SourceFile
      BY <2>1, <2>4, ProceedNothing DEF LexEOF
    <3>2. Before'
      BY <2>4, <3>1 DEF Before, LexEOF
    <3> QED BY <2>4, <3>2 DEF Balanced, Reads, LexEOF, StandStill
  <2> QED BY <2>2, <2>3, <2>4
       DEF Next, Doing, DoBump, DoEmitTrivia, DoStartNode, DoFinishNode, Choose, AtLoop, Iterate,
           ReturnEarly, ParseMember, TakeCheckpoint, ChooseKind, WrapMarked
<1>3. CASE todo = SourceFile
  <2>1. PICK body : Plain(body) /\ SourceFile = Cons(Open("SourceFile"), body \o Cons(Close, <<>>))
    BY SourceFileIs
  <2>2. PICK c : c = Cons(Close, <<>>) /\ IsSequence(c)
    BY EmptyIsSequence, ConsFacts
  <2>3. PICK rest : rest = body \o c /\ IsSequence(rest)
    BY <2>1, <2>2, PlainSequence, ConcatFacts
  <2>4. Head(todo) = Open("SourceFile") /\ Tail(todo) = rest
    <3>1. Head(Cons(Open("SourceFile"), rest)) = Open("SourceFile")
          /\ Tail(Cons(Open("SourceFile"), rest)) = rest
      BY <2>3, ConsFacts
    <3> QED BY <1>3, <2>1, <2>2, <2>3, <3>1
  <2>5. Head(todo).op = "open"
    BY <2>4 DEF Open
  <2>6. CASE DoStartNode
    <3>1. todo' = rest
      BY <2>3, <2>4, <2>6, ProceedNothing DEF DoStartNode
    <3>2. PICK kind : b' = StartNode(b, kind)
      BY <2>6 DEF DoStartNode
    <3>3. Len(b.stack) = 1 /\ b.stack[1] = Frame("base", <<>>)
      BY SingleFacts DEF Before
    <3>4. IsBuilder(b') /\ Len(b'.stack) = 2 /\ b'.stack[1].children = <<>>
      <4>1. /\ IsBuilder(b') /\ Len(b'.stack) = Len(b.stack) + 1
            /\ \A i \in 1 .. Len(b.stack) : b'.stack[i] = b.stack[i]
        BY <3>2, StartNodeFacts DEF Balanced
      <4>2. Frame("base", <<>>).children = <<>>
        BY DEF Frame
      <4> QED BY <3>3, <4>1, <4>2
    <3>5. Fits(rest, 2, <<>>)
      <4>1. Level(body)
        BY <2>1 DEF Level
      <4>2. Fits(<<>>, 2 - 1, <<>>)
        BY FitsEnd
      <4>3. Fits(body \o Cons(Close, <<>>), 2, <<>>)
        BY <4>1, <4>2, FitsClose
      <4> QED BY <2>2, <2>3, <4>3
    <3>6. marks' = <<>>
      BY <2>6 DEF DoStartNode, Before
    <3>7. During'
      BY <3>1, <3>4, <3>5, <3>6, EmptyMarks DEF During
    <3>8. MarksIn(marks', b'.stack)
      BY <3>6, EmptyMarks
    <3>9. Reads'
      BY <2>6 DEF Balanced, Reads, DoStartNode, StandStill
    <3> QED BY <3>4, <3>7, <3>8, <3>9 DEF Balanced
  <2> QED BY <2>5, <2>6
       DEF Next, Doing, LexToken, LexEOF, DoBump, DoEmitTrivia, DoFinishNode, Choose, AtLoop, Iterate,
           ReturnEarly, ParseMember, TakeCheckpoint, ChooseKind, WrapMarked
<1> QED BY <1>2, <1>3 DEF Before

\* The end of a node; of the last one only the base is left.
LEMMA FinishBalanced ==
  ASSUME Balanced, During, DoFinishNode
  PROVE  Balanced'
<1>1. PICK x, rest : /\ IsSequence(rest) /\ Head(todo) = x /\ Tail(todo) = rest
                     /\ Proceeds(x, rest, Len(b.stack), Depths(marks))
  BY DuringProceeds
<1>2. x.op = "close"
  BY <1>1 DEF DoFinishNode, Doing
<1>3. PICK d \in Nat : d = Len(b.stack) /\ d >= 2
  BY StackFacts DEF Balanced, During
<1>4. (\A i \in 1 .. Len(Depths(marks)) : Depths(marks)[i] < d) /\ Fits(rest, d - 1, Depths(marks))
  BY <1>1, <1>2, <1>3 DEF Proceeds, Atoms
<1>5. todo' = rest /\ marks' = marks /\ UNCHANGED <<tokens, pos>>
  BY <1>1, ProceedNothing DEF DoFinishNode, StandStill
<1>6. PICK n \in Nat : n = d - 1 /\ n >= 1
  BY <1>3
<1>7. PICK h : /\ IsBuilder(b') /\ Len(b'.stack) = n
               /\ \A i \in 1 .. n - 1 : b'.stack[i] = b.stack[i]
               /\ b'.stack[n].children = Append(b.stack[n].children, Inner(h))
  BY <1>3, <1>6, FinishNodeFacts DEF Balanced, DoFinishNode
<1>8. \A i \in 1 .. Len(marks) : marks[i].cp.frame \in 1 .. n
  <2>1. \A i \in 1 .. Len(marks) : marks[i].cp.frame \in 1 .. d
    BY <1>3 DEF Balanced, MarksIn
  <2>2. \A i \in 1 .. Len(marks) : marks[i].cp.frame < d
    BY <1>4, DepthsFacts DEF Balanced, MarksIn
  <2> QED BY <1>3, <1>6, <2>1, <2>2
<1>9. \A i \in 1 .. n : /\ Len(b.stack[i].children) \in Nat /\ Len(b'.stack[i].children) \in Nat
                        /\ Len(b'.stack[i].children) >= Len(b.stack[i].children)
  <2> TAKE i \in 1 .. n
  <2>1. i \in 1 .. d
    BY <1>3, <1>6
  <2>2. IsSequence(b.stack[i].children) /\ Len(b.stack[i].children) \in Nat
    BY <1>3, <2>1, StackFacts DEF Balanced
  <2>3. CASE i = n
    <3>1. Len(b'.stack[n].children) = Len(b.stack[n].children) + 1
      BY <1>7, <2>2, <2>3, AppendFacts
    <3> QED BY SMTT(20), <2>2, <2>3, <3>1
  <2>4. CASE i # n
    <3>1. i \in 1 .. n - 1
      BY <1>6, <2>4
    <3>2. b'.stack[i] = b.stack[i]
      BY <1>7, <3>1
    <3> QED BY <2>2, <3>2
  <2> QED BY <2>3, <2>4
<1>10. MarksIn(marks, b'.stack)
  <2>1. MarksIn(marks, b.stack)
    BY DEF Balanced
  <2>2. ASSUME NEW i \in 1 .. Len(marks)
        PROVE  LET f == marks[i].cp.frame
               IN  /\ f \in 1 .. Len(b'.stack)
                   /\ Len(b.stack[f].children) \in Nat /\ Len(b'.stack[f].children) \in Nat
                   /\ Len(b'.stack[f].children) >= Len(b.stack[f].children)
    BY <1>7, <1>8, <1>9
  <2>3. Len(b.stack) \in Nat /\ Len(b'.stack) \in Nat
    BY <1>3, <1>7
  <2> QED BY <2>1, <2>2, <2>3, MarksInMore
<1>11. Reads'
  BY <1>5 DEF Balanced, Reads
<1>12. CASE n = 1
  <2>1. b'.stack[1].children = <<Inner(h)>>
    <3>1. IsSequence(<<>>) /\ Append(<<>>, Inner(h)) = <<>> \o <<Inner(h)>>
      BY EmptyIsSequence, AppendConcat
    <3>2. <<>> \o <<Inner(h)>> = <<Inner(h)>>
      BY SingleFacts, ConcatEmpty
    <3>3. b.stack[1].children = <<>>
      BY DEF During
    <3> QED BY <1>7, <1>12, <3>1, <3>2, <3>3
  <2>2. MayFinish(b')
    <3>1. PICK cs : cs = <<Inner(h)>>
      OBVIOUS
    <3>2. Len(cs) = 1 /\ cs[1] = Inner(h)
      BY <3>1, SingleFacts
    <3>3. Top(b').children = cs
      BY <1>7, <1>12, <2>1, <3>1 DEF Top
    <3>4. ~cs[1].leaf
      BY <3>2 DEF Inner
    <3> QED BY <1>7, <1>12, <3>2, <3>3, <3>4 DEF MayFinish
  <2>3. Fits(rest, 1, Depths(marks))
    BY <1>4, <1>6, <1>12
  <2>4. rest = <<>>
    BY <2>3, FitsIsLayer DEF ClosesAt, WrapsAt
  <2>5. After'
    BY <1>5, <2>2, <2>4 DEF After
  <2> QED BY <1>5, <1>7, <1>10, <1>11, <2>5 DEF Balanced
<1>13. CASE n # 1
  <2>1. n >= 2 /\ 1 \in 1 .. n - 1
    BY <1>6, <1>13
  <2>2. b'.stack[1].children = <<>>
    BY <1>7, <2>1 DEF During
  <2>3. Fits(rest, n, Depths(marks))
    BY <1>4, <1>6
  <2>4. During'
    BY <1>5, <1>7, <2>1, <2>2, <2>3 DEF During
  <2> QED BY <1>5, <1>7, <1>10, <1>11, <2>4 DEF Balanced
<1> QED BY <1>12, <1>13

\* The start of a node.
LEMMA StartBalanced ==
  ASSUME Balanced, During, DoStartNode
  PROVE  Balanced'
<1>1. PICK x, rest : /\ IsSequence(rest) /\ Head(todo) = x /\ Tail(todo) = rest
                     /\ Proceeds(x, rest, Len(b.stack), Depths(marks))
  BY DuringProceeds
<1>2. x.op = "open"
  BY <1>1 DEF DoStartNode, Doing
<1>3. PICK d \in Nat : d = Len(b.stack) /\ d >= 2
  BY StackFacts DEF Balanced, During
<1>4. Fits(rest, d + 1, Depths(marks))
  BY <1>1, <1>2, <1>3 DEF Proceeds, Atoms
<1>5. todo' = rest /\ marks' = marks /\ UNCHANGED <<tokens, pos>>
  BY <1>1, ProceedNothing DEF DoStartNode, StandStill
<1>6. PICK kind : b' = StartNode(b, kind)
  BY DEF DoStartNode
<1>7. /\ IsBuilder(b') /\ Len(b'.stack) = d + 1
      /\ \A i \in 1 .. d : b'.stack[i] = b.stack[i]
  BY <1>3, <1>6, StartNodeFacts DEF Balanced
<1>8. MarksIn(marks, b'.stack)
  <2>1. MarksIn(marks, b.stack) /\ \A i \in 1 .. Len(marks) : marks[i].cp.frame \in 1 .. d
    BY <1>3 DEF Balanced, MarksIn
  <2>2. \A f \in 1 .. d : /\ f \in 1 .. d + 1
                          /\ Len(b.stack[f].children) \in Nat /\ Len(b'.stack[f].children) \in Nat
                          /\ Len(b'.stack[f].children) >= Len(b.stack[f].children)
    <3> TAKE f \in 1 .. d
    <3>1. Len(b.stack[f].children) \in Nat
      BY <1>3, StackFacts DEF Balanced
    <3>2. b'.stack[f] = b.stack[f] /\ f \in 1 .. d + 1
      BY <1>7
    <3> QED BY <3>1, <3>2
  <2>3. ASSUME NEW i \in 1 .. Len(marks)
        PROVE  LET f == marks[i].cp.frame
               IN  /\ f \in 1 .. Len(b'.stack)
                   /\ Len(b.stack[f].children) \in Nat /\ Len(b'.stack[f].children) \in Nat
                   /\ Len(b'.stack[f].children) >= Len(b.stack[f].children)
    BY <1>7, <2>1, <2>2
  <2>4. Len(b.stack) \in Nat /\ Len(b'.stack) \in Nat
    BY <1>3, <1>7
  <2> QED BY <2>1, <2>3, <2>4, MarksInMore
<1>9. During'
  <2>1. d + 1 >= 2 /\ 1 \in 1 .. d
    BY <1>3
  <2> QED BY <1>4, <1>5, <1>7, <2>1 DEF During
<1>10. Reads'
  BY <1>5 DEF Balanced, Reads
<1> QED BY <1>5, <1>7, <1>8, <1>9, <1>10 DEF Balanced

\* A checkpoint is of the open node, behind its children.
LEMMA MarkBalanced ==
  ASSUME Balanced, During, TakeCheckpoint
  PROVE  Balanced'
<1>1. PICK x, rest : /\ IsSequence(rest) /\ Head(todo) = x /\ Tail(todo) = rest
                     /\ Proceeds(x, rest, Len(b.stack), Depths(marks))
  BY DuringProceeds
<1>2. x.op = "mark"
  BY <1>1 DEF TakeCheckpoint, Doing
<1>3. PICK d \in Nat : d = Len(b.stack) /\ d >= 2 /\ d \in 1 .. d
  BY StackFacts DEF Balanced, During
<1>4. Fits(rest, d, Append(Depths(marks), d))
  BY <1>1, <1>2, <1>3 DEF Proceeds, Atoms
<1>5. todo' = rest /\ b' = b /\ UNCHANGED <<tokens, pos>>
  BY <1>1, ProceedNothing DEF TakeCheckpoint, StandStill
<1>6. PICK n \in Nat : n = Len(b.stack[d].children)
  BY <1>3, StackFacts DEF Balanced
<1>7. PICK cp : cp = [frame |-> d, n |-> n]
  OBVIOUS
<1>8. PICK mark : mark = [cp |-> cp, kind |-> "Usage"]
  OBVIOUS
<1>9. marks' = Append(marks, mark)
  BY <1>3, <1>6, <1>7, <1>8 DEF TakeCheckpoint, Checkpoint, Top
<1>10. PICK k \in Nat : k = Len(marks) /\ IsSequence(marks)
  BY SequenceFacts DEF Balanced, MarksIn
<1>11. /\ IsSequence(marks') /\ Len(marks') = k + 1
       /\ \A i \in 1 .. k : marks'[i] = marks[i]
       /\ marks'[k + 1] = mark
  BY <1>9, <1>10, AppendFacts
<1>12. mark.cp.frame = d /\ mark.cp.n = n /\ mark = [cp |-> mark.cp, kind |-> mark.kind]
  BY <1>7, <1>8
<1>13. \A i \in 1 .. k + 1 : i \in 1 .. k \/ i = k + 1
  OBVIOUS
<1>14. ASSUME NEW i \in 1 .. k
       PROVE  /\ marks[i] = [cp |-> marks[i].cp, kind |-> marks[i].kind]
              /\ marks[i].cp.frame \in 1 .. d
              /\ marks[i].cp.n \in 0 .. Len(b.stack[marks[i].cp.frame].children)
              /\ marks[i].cp.frame = d => marks[i].cp.n <= n
  <2>1. /\ marks[i] = [cp |-> marks[i].cp, kind |-> marks[i].kind]
        /\ marks[i].cp.frame \in 1 .. d
        /\ marks[i].cp.n \in 0 .. Len(b.stack[marks[i].cp.frame].children)
    BY <1>3, <1>10 DEF Balanced, MarksIn
  <2>2. marks[i].cp.frame = d => marks[i].cp.n \in 0 .. n
    BY <1>6, <2>1
  <2>3. \A j \in 0 .. n : j <= n
    OBVIOUS
  <2> QED BY <2>1, <2>2, <2>3
<1>15. \A i \in 1 .. k + 1 :
         /\ marks'[i] = [cp |-> marks'[i].cp, kind |-> marks'[i].kind]
         /\ marks'[i].cp.frame \in 1 .. d
         /\ marks'[i].cp.n \in 0 .. Len(b.stack[marks'[i].cp.frame].children)
  <2> TAKE i \in 1 .. k + 1
  <2>1. CASE i \in 1 .. k
    BY <1>11, <1>14, <2>1
  <2>2. CASE i = k + 1
    <3>1. n \in 0 .. n
      OBVIOUS
    <3> QED BY <1>3, <1>6, <1>11, <1>12, <2>2, <3>1
  <2> QED BY <1>13, <2>1, <2>2
<1>16. \A i, j \in 1 .. k + 1 :
         i <= j /\ marks'[i].cp.frame = marks'[j].cp.frame => marks'[i].cp.n <= marks'[j].cp.n
  <2> SUFFICES ASSUME NEW i \in 1 .. k + 1, NEW j \in 1 .. k + 1, i <= j,
                      marks'[i].cp.frame = marks'[j].cp.frame
               PROVE  marks'[i].cp.n <= marks'[j].cp.n
    OBVIOUS
  <2>1. CASE j \in 1 .. k
    <3>1. i \in 1 .. k
      BY <2>1
    <3>2. \A p, q \in 1 .. k : p <= q /\ marks[p].cp.frame = marks[q].cp.frame => marks[p].cp.n <= marks[q].cp.n
      BY <1>10 DEF Balanced, MarksIn
    <3> QED BY <1>11, <2>1, <3>1, <3>2
  <2>2. CASE i \in 1 .. k /\ j = k + 1
    BY <1>11, <1>12, <1>14, <2>2
  <2>3. CASE i = k + 1 /\ j = k + 1
    BY <1>11, <1>12, <2>3
  <2>4. i \in 1 .. k \/ i = k + 1
    BY <1>13
  <2>5. i = k + 1 => j = k + 1
    OBVIOUS
  <2> QED BY <1>13, <2>1, <2>2, <2>3, <2>4, <2>5
<1>17. MarksIn(marks', b'.stack)
  BY <1>3, <1>5, <1>11, <1>15, <1>16 DEF MarksIn
<1>18. Depths(marks') = Append(Depths(marks), d)
  <2>1. /\ IsSequence(Depths(marks)) /\ Len(Depths(marks)) = k
        /\ \A i \in 1 .. k : Depths(marks)[i] = marks[i].cp.frame
    BY <1>10, DepthsFacts
  <2>2. PICK ms : ms = marks'
    OBVIOUS
  <2>3. /\ IsSequence(Depths(ms)) /\ Len(Depths(ms)) = k + 1
        /\ \A i \in 1 .. k + 1 : Depths(ms)[i] = ms[i].cp.frame
    BY <1>11, <2>2, DepthsFacts
  <2>4. PICK s : s = Append(Depths(marks), d)
    OBVIOUS
  <2>5. /\ IsSequence(s) /\ Len(s) = k + 1
        /\ \A i \in 1 .. k : s[i] = Depths(marks)[i]
        /\ s[k + 1] = d
    BY <2>1, <2>4, AppendFacts
  <2>6. \A i \in 1 .. k + 1 : Depths(ms)[i] = s[i]
    <3> TAKE i \in 1 .. k + 1
    <3>1. CASE i \in 1 .. k
      BY <1>11, <2>1, <2>2, <2>3, <2>5, <3>1
    <3>2. CASE i = k + 1
      BY <1>11, <1>12, <2>2, <2>3, <2>5, <3>2
    <3> QED BY <1>13, <3>1, <3>2
  <2>7. Depths(ms) = s
    BY <2>3, <2>5, <2>6, SameSequence
  <2> QED BY <2>2, <2>4, <2>7
<1>19. During'
  BY <1>3, <1>4, <1>5, <1>18 DEF During
<1> QED BY <1>5, <1>17, <1>19 DEF Balanced, Reads

\* The kind of a checkpoint changes nothing about it.
LEMMA LabelBalanced ==
  ASSUME Balanced, During, ChooseKind
  PROVE  Balanced'
<1>1. PICK x, rest : /\ IsSequence(rest) /\ Head(todo) = x /\ Tail(todo) = rest
                     /\ Proceeds(x, rest, Len(b.stack), Depths(marks))
  BY DuringProceeds
<1>2. x.op = "label"
  BY <1>1 DEF ChooseKind, Doing
<1>3. Fits(rest, Len(b.stack), Depths(marks))
  BY <1>1, <1>2 DEF Proceeds, Atoms
<1>4. todo' = rest /\ b' = b /\ UNCHANGED <<tokens, pos>>
  BY <1>1, ProceedNothing DEF ChooseKind, StandStill
<1>5. PICK k \in Nat : k = Len(marks) /\ marks = [i \in 1 .. k |-> marks[i]]
  BY SequenceFacts DEF Balanced, MarksIn
<1>6. PICK kind : marks' = [marks EXCEPT ![k].kind = kind]
  BY <1>5 DEF ChooseKind
<1>7. marks' = [i \in 1 .. k |-> IF i = k THEN [marks[k] EXCEPT !.kind = kind] ELSE marks[i]]
  BY <1>5, <1>6
<1>8. PICK ms : ms = marks'
  OBVIOUS
<1>9. IsSequence(ms) /\ Len(ms) = k
  BY <1>7, <1>8, SequenceOf
<1>10. ASSUME NEW i \in 1 .. k
       PROVE  ms[i].cp = marks[i].cp /\ ms[i] = [cp |-> ms[i].cp, kind |-> ms[i].kind]
  <2>1. marks[i] = [cp |-> marks[i].cp, kind |-> marks[i].kind]
    BY <1>5 DEF Balanced, MarksIn
  <2>2. CASE i = k
    <3>1. ms[i] = [marks[i] EXCEPT !.kind = kind]
      BY <1>7, <1>8, <2>2
    <3>2. [marks[i] EXCEPT !.kind = kind] = [cp |-> marks[i].cp, kind |-> kind]
      BY <2>1
    <3> QED BY <3>1, <3>2
  <2>3. CASE i # k
    <3>1. ms[i] = marks[i]
      BY <1>7, <1>8, <2>3
    <3> QED BY <2>1, <3>1
  <2> QED BY <2>2, <2>3
<1>11. MarksIn(ms, b.stack)
  BY <1>5, <1>9, <1>10 DEF Balanced, MarksIn
<1>12. Depths(ms) = Depths(marks)
  BY <1>5, <1>9, <1>10 DEF Depths
<1>13. During'
  BY <1>3, <1>4, <1>8, <1>12 DEF During
<1> QED BY <1>4, <1>8, <1>11, <1>13 DEF Balanced, Reads

\* In y a new frame has taken over the children cs of frame d of x from
\* the n-th on.
TakesOver(x, y, d, cs, n) ==
  /\ IsBuilder(y) /\ y.leaves = x.leaves /\ y.nodes = x.nodes /\ Len(y.stack) = d + 1
  /\ \A i \in 1 .. d - 1 : y.stack[i] = x.stack[i]
  /\ y.stack[d].children = SubSeq(cs, 1, n)
  /\ y.stack[d + 1].children = SubSeq(cs, n + 1, Len(cs))

\* What StartNodeAt does.
LEMMA StartNodeAtFacts ==
  ASSUME NEW x, IsBuilder(x), NEW d \in Nat, d = Len(x.stack), d >= 1,
         NEW cp, NEW kind, cp.n \in 0 .. Len(x.stack[d].children)
  PROVE  TakesOver(x, StartNodeAt(x, cp, kind), d, x.stack[d].children, cp.n)
<1>1. d \in 1 .. d /\ IsSequence(x.stack) /\ x.stack = [i \in 1 .. d |-> x.stack[i]]
  BY SequenceFacts DEF IsBuilder, IsStack
<1>2. PICK f : f = x.stack[d] /\ IsFrame(f)
  BY <1>1 DEF IsBuilder, IsStack
<1>3. PICK n \in Nat, k \in Nat : n = cp.n /\ k = Len(f.children) /\ n <= k
  BY <1>2, SequenceFacts DEF IsFrame
<1>4. PICK kept, taken : kept = SubSeq(f.children, 1, n) /\ taken = SubSeq(f.children, n + 1, k)
  OBVIOUS
<1>5. IsSequence(kept) /\ Len(kept) = n
  BY <1>2, <1>3, <1>4, PrefixFacts DEF IsFrame
<1>6. IsSequence(taken)
  <2>1. PICK p : p = n + 1
    OBVIOUS
  <2>2. p \in 1 .. k + 1 /\ k \in p - 1 .. k
    BY <1>3, <2>1
  <2>3. PICK cs : cs = f.children /\ IsSequence(cs) /\ Len(cs) = k
    BY <1>2, <1>3 DEF IsFrame
  <2>4. IsSequence(SubSeq(cs, p, k))
    BY <2>2, <2>3, SubSeqFacts
  <2> QED BY <1>4, <2>1, <2>3, <2>4
<1>7. PICK stack : stack = [x.stack EXCEPT ![d] = [f EXCEPT !.children = kept]]
  OBVIOUS
<1>8. [f EXCEPT !.children = kept] = Frame(f.kind, kept)
  BY <1>2 DEF IsFrame, Frame
<1>9. stack = [i \in 1 .. d |-> IF i = d THEN Frame(f.kind, kept) ELSE x.stack[i]]
  BY <1>1, <1>7, <1>8
<1>10. IsSequence(stack) /\ Len(stack) = d
  BY <1>9, SequenceOf
<1>11. stack[d] = Frame(f.kind, kept) /\ \A i \in 1 .. d - 1 : stack[i] = x.stack[i]
  BY <1>1, <1>9
<1>12. IsFrame(Frame(f.kind, kept)) /\ Frame(f.kind, kept).children = kept
  BY <1>5 DEF IsFrame, Frame
<1>13. IsStack(stack)
  <2>1. \A i \in 1 .. d : i = d \/ i \in 1 .. d - 1
    OBVIOUS
  <2>2. \A i \in 1 .. d - 1 : i \in 1 .. d
    OBVIOUS
  <2>3. \A i \in 1 .. d - 1 : IsFrame(x.stack[i])
    BY <2>2 DEF IsBuilder, IsStack
  <2> QED BY <1>10, <1>11, <1>12, <2>1, <2>3 DEF IsStack
<1>14. PICK g : g = Frame(kind, taken) /\ IsFrame(g)
  <2>1. IsFrame(Frame(kind, taken))
    BY <1>6 DEF IsFrame, Frame
  <2> QED BY <2>1
<1>15. PICK top : top = Append(stack, g)
  OBVIOUS
<1>16. /\ IsSequence(top) /\ Len(top) = d + 1
       /\ \A i \in 1 .. d : top[i] = stack[i]
       /\ top[d + 1] = g
  BY <1>10, <1>15, AppendFacts
<1>17. IsStack(top)
  <2>1. \A i \in 1 .. d + 1 : i \in 1 .. d \/ i = d + 1
    OBVIOUS
  <2> QED BY <1>10, <1>13, <1>14, <1>16, <2>1 DEF IsStack
<1>18. PICK z : z = StartNodeAt(x, cp, kind)
  OBVIOUS
<1>19. z = [leaves |-> x.leaves, nodes |-> x.nodes, stack |-> top]
  <2>1. [x.stack EXCEPT ![d].children = SubSeq(@, 1, n)] = stack
    BY <1>1, <1>2, <1>4, <1>7
  <2>2. z = [x EXCEPT !.stack = top]
    BY <1>2, <1>3, <1>4, <1>14, <1>15, <1>18, <2>1 DEF StartNodeAt, Top
  <2> QED BY <2>2 DEF IsBuilder
<1>20. IsBuilder(z) /\ z.stack = top /\ Len(z.stack) = d + 1
  BY <1>16, <1>17, <1>19 DEF IsBuilder
<1>21. \A i \in 1 .. d - 1 : z.stack[i] = x.stack[i]
  <2> TAKE i \in 1 .. d - 1
  <2>1. i \in 1 .. d
    OBVIOUS
  <2> QED BY <1>11, <1>16, <1>20, <2>1
<1>22. z.stack[d].children = kept
  BY <1>1, <1>11, <1>12, <1>16, <1>20
<1>23. z.stack[d + 1].children = taken
  BY <1>14, <1>16, <1>20 DEF Frame
<1>24. z.stack[d].children = SubSeq(x.stack[d].children, 1, cp.n)
  BY <1>2, <1>3, <1>4, <1>22
<1>25. z.stack[d + 1].children = SubSeq(x.stack[d].children, cp.n + 1, Len(x.stack[d].children))
  BY <1>2, <1>3, <1>4, <1>23
<1>26. z.leaves = x.leaves /\ z.nodes = x.nodes
  BY <1>19
<1>27. TakesOver(x, z, d, x.stack[d].children, cp.n)
  BY <1>20, <1>21, <1>24, <1>25, <1>26 DEF TakesOver
<1> QED BY <1>18, <1>27

\* What is wrapped becomes one child.
LEMMA WrapFacts ==
  ASSUME NEW x, IsBuilder(x), NEW d \in Nat, d = Len(x.stack), d >= 1,
         NEW cp, NEW kind, cp.n \in 0 .. Len(x.stack[d].children)
  PROVE  LET y == FinishNode(StartNodeAt(x, cp, kind))
         IN  /\ IsBuilder(y) /\ Len(y.stack) = d
             /\ \A i \in 1 .. d - 1 : y.stack[i] = x.stack[i]
             /\ Len(y.stack[d].children) = cp.n + 1
<1>1. PICK z : z = StartNodeAt(x, cp, kind)
  OBVIOUS
<1>2. PICK cs : cs = x.stack[d].children
  OBVIOUS
<1>3. IsSequence(cs)
  <2>1. d \in 1 .. d
    OBVIOUS
  <2> QED BY <1>2, <2>1, StackFacts
<1>4. /\ IsBuilder(z) /\ Len(z.stack) = d + 1
      /\ \A i \in 1 .. d - 1 : z.stack[i] = x.stack[i]
      /\ z.stack[d].children = SubSeq(cs, 1, cp.n)
  <2>1. TakesOver(x, StartNodeAt(x, cp, kind), d, x.stack[d].children, cp.n)
    BY StartNodeAtFacts
  <2> QED BY <1>1, <1>2, <2>1 DEF TakesOver
<1>5. PICK h : LET y == FinishNode(z)
               IN  /\ IsBuilder(y) /\ Len(y.stack) = d
                   /\ \A i \in 1 .. d - 1 : y.stack[i] = z.stack[i]
                   /\ y.stack[d].children = Append(z.stack[d].children, Inner(h))
  <2>1. Len(z.stack) >= 2 /\ Len(z.stack) - 1 = d
    BY <1>4
  <2>2. PICK h : LET m == Len(z.stack) - 1
                     y == FinishNode(z)
                 IN  /\ IsBuilder(y) /\ Len(y.stack) = m
                     /\ \A i \in 1 .. m - 1 : y.stack[i] = z.stack[i]
                     /\ y.stack[m].children = Append(z.stack[m].children, Inner(h))
    BY <1>4, <2>1, FinishNodeFacts
  <2> QED BY <2>1, <2>2
<1>6. PICK y : y = FinishNode(z)
  OBVIOUS
<1>7. \A i \in 1 .. d - 1 : y.stack[i] = x.stack[i]
  BY <1>4, <1>5, <1>6
<1>8. PICK n : n = cp.n /\ n \in 0 .. Len(cs)
  BY <1>2
<1>9. PICK kept : kept = SubSeq(cs, 1, n) /\ IsSequence(kept) /\ Len(kept) = n
  BY ZenonT(40), <1>3, <1>8, PrefixFacts
<1>10. y.stack[d].children = Append(kept, Inner(h))
  BY <1>4, <1>5, <1>6, <1>8, <1>9
<1>11. Len(y.stack[d].children) = n + 1
  BY <1>9, <1>10, AppendFacts
<1> QED BY <1>1, <1>5, <1>6, <1>7, <1>8, <1>11

\* What is wrapped are the children since the last checkpoint.
LEMMA WrapBalanced ==
  ASSUME Balanced, During, WrapMarked
  PROVE  Balanced'
<1>1. PICK x, rest : /\ IsSequence(rest) /\ Head(todo) = x /\ Tail(todo) = rest
                     /\ Proceeds(x, rest, Len(b.stack), Depths(marks))
  BY DuringProceeds
<1>2. x.op = "wrap"
  BY <1>1 DEF WrapMarked, Doing
<1>3. PICK d \in Nat : d = Len(b.stack) /\ d >= 2 /\ d \in 1 .. d
  BY StackFacts DEF Balanced, During
<1>4. PICK m0 : IsSequence(m0) /\ Depths(marks) = Append(m0, d) /\ Fits(rest, d, m0)
  BY <1>1, <1>2, <1>3 DEF Proceeds, Atoms
<1>5. PICK k \in Nat : k = Len(marks) /\ k = Len(m0) + 1 /\ k - 1 \in Nat /\ k - 1 = Len(m0)
                       /\ marks[k].cp.frame = d /\ \A i \in 1 .. k - 1 : m0[i] = marks[i].cp.frame
  <2>1. /\ Len(marks) = Len(m0) + 1 /\ Len(marks) \in Nat /\ Len(m0) \in Nat
        /\ marks[Len(marks)].cp.frame = d
        /\ \A i \in 1 .. Len(marks) - 1 : m0[i] = marks[i].cp.frame
    BY <1>4, LastMark DEF Balanced, MarksIn
  <2>2. Len(marks) - 1 \in Nat /\ Len(marks) - 1 = Len(m0)
    BY <2>1
  <2> QED BY <2>1, <2>2
<1>6. PICK cp, kind : cp = marks[k].cp /\ kind = marks[k].kind
  OBVIOUS
<1>7. PICK n \in Nat : n = cp.n /\ cp.n \in 0 .. Len(b.stack[d].children)
  <2>1. k \in 1 .. k
    BY <1>5
  <2>2. cp.n \in 0 .. Len(b.stack[d].children)
    BY <1>5, <1>6, <2>1 DEF Balanced, MarksIn
  <2>3. Len(b.stack[d].children) \in Nat
    BY <1>3, StackFacts DEF Balanced
  <2> QED BY <2>2, <2>3
<1>8. todo' = rest /\ UNCHANGED <<tokens, pos>>
  BY <1>1, ProceedNothing DEF WrapMarked, StandStill
<1>9. b' = FinishNode(StartNodeAt(b, cp, kind))
  BY <1>5, <1>6 DEF WrapMarked, Last
<1>10. /\ IsBuilder(b') /\ Len(b'.stack) = d
       /\ \A i \in 1 .. d - 1 : b'.stack[i] = b.stack[i]
       /\ Len(b'.stack[d].children) = n + 1
  BY SMTT(20), <1>3, <1>7, <1>9, WrapFacts DEF Balanced
<1>11. PICK ms : ms = marks'
  OBVIOUS
<1>12. IsSequence(ms) /\ Len(ms) = k - 1 /\ \A i \in 1 .. k - 1 : ms[i] = marks[i]
  <2>1. ms = SubSeq(marks, 1, k - 1)
    BY <1>5, <1>11 DEF WrapMarked, Front
  <2>2. PICK j \in Nat : j = k - 1
    BY <1>5
  <2>3. j \in 0 .. k
    BY <1>5, <2>2
  <2>4. IsSequence(marks) /\ Len(marks) = k
    BY <1>5 DEF Balanced, MarksIn
  <2>5. /\ IsSequence(SubSeq(marks, 1, j)) /\ Len(SubSeq(marks, 1, j)) = j
        /\ \A i \in 1 .. j : SubSeq(marks, 1, j)[i] = marks[i]
    BY <2>3, <2>4, PrefixFacts
  <2> QED BY <2>1, <2>2, <2>5
<1>13. \A i \in 1 .. k - 1 : i \in 1 .. k /\ i <= k /\ k \in 1 .. k
  BY <1>5
<1>14. ASSUME NEW i \in 1 .. k - 1
       PROVE  /\ ms[i] = [cp |-> ms[i].cp, kind |-> ms[i].kind]
              /\ ms[i].cp.frame \in 1 .. d
              /\ ms[i].cp.n \in 0 .. Len(b'.stack[ms[i].cp.frame].children)
  <2>1. /\ marks[i] = [cp |-> marks[i].cp, kind |-> marks[i].kind]
        /\ marks[i].cp.frame \in 1 .. d
        /\ marks[i].cp.n \in 0 .. Len(b.stack[marks[i].cp.frame].children)
        /\ marks[i].cp.frame = d => marks[i].cp.n <= n
    BY <1>3, <1>5, <1>6, <1>7, <1>13 DEF Balanced, MarksIn
  <2>2. CASE marks[i].cp.frame = d
    <3>1. Len(b.stack[d].children) \in Nat
      BY <1>3, StackFacts DEF Balanced
    <3>2. marks[i].cp.n \in Nat /\ marks[i].cp.n <= n
      BY <2>1, <2>2, <3>1
    <3>3. marks[i].cp.n \in 0 .. n + 1
      BY <3>2
    <3> QED BY <1>10, <1>12, <2>1, <2>2, <3>3
  <2>3. CASE marks[i].cp.frame # d
    <3>1. marks[i].cp.frame \in 1 .. d - 1
      BY <1>3, <2>1, <2>3
    <3>2. b'.stack[marks[i].cp.frame] = b.stack[marks[i].cp.frame]
      BY <1>10, <3>1
    <3> QED BY <1>12, <2>1, <3>2
  <2> QED BY <2>2, <2>3
<1>15. \A i, j \in 1 .. k - 1 :
         i <= j /\ ms[i].cp.frame = ms[j].cp.frame => ms[i].cp.n <= ms[j].cp.n
  <2>1. \A i, j \in 1 .. k :
          i <= j /\ marks[i].cp.frame = marks[j].cp.frame => marks[i].cp.n <= marks[j].cp.n
    BY <1>5 DEF Balanced, MarksIn
  <2> QED BY <1>12, <1>13, <2>1
<1>16. MarksIn(ms, b'.stack)
  BY <1>10, <1>12, <1>14, <1>15 DEF MarksIn
<1>17. Depths(ms) = m0
  <2>1. /\ IsSequence(Depths(ms)) /\ Len(Depths(ms)) = k - 1
        /\ \A i \in 1 .. k - 1 : Depths(ms)[i] = ms[i].cp.frame
    BY <1>12, DepthsFacts
  <2>2. \A i \in 1 .. k - 1 : Depths(ms)[i] = m0[i]
    BY <1>5, <1>12, <2>1
  <2> QED BY <1>4, <1>5, <2>1, <2>2, SameSequence
<1>18. b'.stack[1].children = <<>>
  <2>1. 1 \in 1 .. d - 1
    BY <1>3
  <2> QED BY <1>10, <2>1 DEF During
<1>19. During'
  BY <1>3, <1>4, <1>8, <1>10, <1>11, <1>17, <1>18 DEF During
<1> QED BY <1>8, <1>10, <1>11, <1>16, <1>19 DEF Balanced, Reads

\* The elements of a sequence with x and y at its head.
LEMMA TwoFirst ==
  ASSUME NEW x, NEW y, NEW c, IsSequence(c)
  PROVE  /\ IsSequence(Cons(x, Cons(y, c))) /\ Len(Cons(x, Cons(y, c))) = Len(c) + 2
         /\ Cons(x, Cons(y, c))[1] = x /\ Cons(x, Cons(y, c))[2] = y
         /\ \A i \in 1 .. Len(c) : Cons(x, Cons(y, c))[i + 2] = c[i]
<1>1. \A e, s : IsSequence(s) =>
        /\ IsSequence(Cons(e, s)) /\ Len(Cons(e, s)) = Len(s) + 1 /\ Len(s) \in Nat
        /\ Cons(e, s)[1] = e /\ \A i \in 1 .. Len(s) : Cons(e, s)[i + 1] = s[i]
  <2> SUFFICES ASSUME NEW e, NEW s, IsSequence(s)
               PROVE  /\ IsSequence(Cons(e, s)) /\ Len(Cons(e, s)) = Len(s) + 1 /\ Len(s) \in Nat
                      /\ Cons(e, s)[1] = e /\ \A i \in 1 .. Len(s) : Cons(e, s)[i + 1] = s[i]
    OBVIOUS
  <2>1. PICK h : h = <<e>> /\ IsSequence(h) /\ Len(h) = 1 /\ h[1] = e
    BY SingleFacts
  <2>2. PICK t : t = h \o s
    OBVIOUS
  <2>3. PICK n \in Nat : n = Len(s)
    BY SequenceFacts
  <2>4. /\ IsSequence(t) /\ Len(t) = 1 + n
        /\ \A i \in 1 .. 1 + n : t[i] = IF i <= 1 THEN h[i] ELSE s[i - 1]
    BY <2>1, <2>2, <2>3, ConcatFacts
  <2>5. t[1] = e
    BY <2>1, <2>3, <2>4
  <2>6. \A i \in 1 .. n : i + 1 \in 1 .. 1 + n /\ ~(i + 1 <= 1) /\ i + 1 - 1 = i
    OBVIOUS
  <2>7. \A i \in 1 .. n : t[i + 1] = s[i]
    BY <2>4, <2>6
  <2>8. Cons(e, s) = t
    BY <2>1, <2>2 DEF Cons
  <2> QED BY <2>3, <2>4, <2>5, <2>7, <2>8
<1>2. PICK s : s = Cons(y, c)
  OBVIOUS
<1>3. /\ IsSequence(s) /\ Len(s) = Len(c) + 1 /\ Len(c) \in Nat
      /\ s[1] = y /\ \A i \in 1 .. Len(c) : s[i + 1] = c[i]
  BY <1>1, <1>2
<1>4. PICK t : t = Cons(x, s)
  OBVIOUS
<1>5. /\ IsSequence(t) /\ Len(t) = Len(s) + 1
      /\ t[1] = x /\ \A i \in 1 .. Len(s) : t[i + 1] = s[i]
  BY <1>1, <1>3, <1>4
<1>6. PICK n \in Nat : n = Len(c)
  BY <1>3
<1>7. Len(t) = n + 2 /\ 1 \in 1 .. n + 1 /\ \A i \in 1 .. n : i + 1 \in 1 .. n + 1 /\ i + 1 + 1 = i + 2
  BY <1>3, <1>5, <1>6
<1>8. t[2] = y
  <2>1. t[1 + 1] = s[1]
    BY <1>3, <1>5, <1>6, <1>7
  <2> QED BY <1>3, <2>1
<1>9. \A i \in 1 .. n : t[i + 2] = c[i]
  <2> TAKE i \in 1 .. n
  <2>1. t[i + 1 + 1] = s[i + 1]
    BY <1>3, <1>5, <1>6, <1>7
  <2> QED BY <1>3, <1>6, <1>7, <2>1
<1> QED BY <1>2, <1>4, <1>5, <1>6, <1>7, <1>8, <1>9

\* ImportName returns: what is left of it is dropped up to the end of its
\* node.
LEMMA ReturnIs ==
  ASSUME Balanced, During, ReturnEarly
  PROVE  \E x, y, c : /\ IsSequence(c) /\ todo = Cons(x, Cons(y, c)) /\ todo' = c
                      /\ Fits(c, Len(b.stack), Depths(marks))
<1>1. PICK x, rest : /\ IsSequence(rest) /\ Head(todo) = x /\ todo = Cons(x, rest)
                     /\ Proceeds(x, rest, Len(b.stack), Depths(marks))
  BY DuringProceeds
<1>2. x.op = "return"
  BY <1>1 DEF ReturnEarly, Doing
<1>3. PICK y, r : /\ y.op # "close" /\ IsSequence(r) /\ rest = Cons(y, Cons(Close, r))
                  /\ Fits(Cons(Close, r), Len(b.stack), Depths(marks))
  BY <1>1, <1>2 DEF Proceeds, Atoms
<1>4. PICK c : c = Cons(Close, r)
  OBVIOUS
<1>5. IsSequence(c) /\ c # <<>> /\ Head(c) = Close
  BY <1>3, <1>4, ConsFacts
<1>6. PICK n \in Nat : n = Len(c) /\ n >= 1 /\ c[1] = Close
  BY <1>5, SequenceFacts, HeadAndTail
<1>7. PICK t : t = todo /\ t = Cons(x, Cons(y, c))
  BY <1>1, <1>3, <1>4
<1>8. /\ IsSequence(t) /\ Len(t) = n + 2 /\ DOMAIN t = 1 .. n + 2
      /\ t[1] = x /\ t[2] = y /\ \A i \in 1 .. n : t[i + 2] = c[i]
  <2>1. /\ IsSequence(t) /\ Len(t) = n + 2
        /\ t[1] = x /\ t[2] = y /\ \A i \in 1 .. n : t[i + 2] = c[i]
    BY <1>5, <1>6, <1>7, TwoFirst
  <2> QED BY <2>1, SequenceFacts
<1>9. t[3].op = "close"
  <2>1. 1 \in 1 .. n /\ 1 + 2 = 3
    BY <1>6
  <2>2. t[3] = c[1]
    BY <1>8, <2>1
  <2> QED BY <1>6, <2>2 DEF Close
<1>10. PICK S : S = {i \in DOMAIN t : t[i].op = "close"}
  OBVIOUS
<1>11. S \in SUBSET Nat /\ 3 \in S /\ \A i \in S : i >= 3
  <2>1. 3 \in 1 .. n + 2
    BY <1>6
  <2>2. \A i \in 1 .. n + 2 : i \in Nat /\ (i = 1 \/ i = 2 \/ i >= 3)
    OBVIOUS
  <2>3. 1 \notin S /\ 2 \notin S
    BY <1>2, <1>3, <1>8, <1>10
  <2> QED BY <1>8, <1>9, <1>10, <2>1, <2>2, <2>3
<1>12. Min(S) = 3
  <2>1. Min(S) \in S /\ \A i \in S : Min(S) <= i
    BY <1>11, LeastIs
  <2>2. PICK m \in Nat : m = Min(S)
    BY <1>11, <2>1
  <2>3. m >= 3 /\ m <= 3
    BY <1>11, <2>1, <2>2
  <2> QED BY <2>2, <2>3
<1>13. todo' = SubSeq(t, 3, n + 2)
  BY <1>7, <1>8, <1>10, <1>12 DEF ReturnEarly
<1>14. SubSeq(t, 3, n + 2) = c
  <2>1. PICK q \in Nat : q = n + 2
    OBVIOUS
  <2>2. 3 \in 1 .. q + 1 /\ q \in 3 - 1 .. q /\ q - 3 + 1 = n
    BY <1>6, <2>1
  <2>3. /\ IsSequence(SubSeq(t, 3, q)) /\ Len(SubSeq(t, 3, q)) = n
        /\ \A i \in 1 .. n : SubSeq(t, 3, q)[i] = t[3 + i - 1]
    BY <1>8, <2>1, <2>2, SubSeqFacts
  <2>4. \A i \in 1 .. n : 3 + i - 1 = i + 2
    OBVIOUS
  <2>5. \A i \in 1 .. n : SubSeq(t, 3, q)[i] = c[i]
    BY <1>8, <2>3, <2>4
  <2> QED BY <1>5, <1>6, <2>1, <2>3, <2>5, SameSequence
<1>15. todo' = c /\ Fits(c, Len(b.stack), Depths(marks))
  BY <1>3, <1>4, <1>13, <1>14
<1> QED BY <1>5, <1>7, <1>15

\* The end of the node fits.
LEMMA ReturnBalanced ==
  ASSUME Balanced, During, ReturnEarly
  PROVE  Balanced'
<1>1. Fits(todo', Len(b.stack), Depths(marks))
  BY ReturnIs
<1>2. UNCHANGED <<tokens, pos, marks, b>>
  BY DEF ReturnEarly, StandStill
<1> QED BY <1>1, <1>2, StandsStill
-----------------------------------------------------------------------------
\* The other steps leave the frames alone.
LEMMA LexBalanced ==
  ASSUME Balanced, During, LexToken
  PROVE  Balanced'
<1>1. PICK t : tokens' = Append(tokens, t) /\ UNCHANGED <<pos, todo, marks, b>>
  BY DEF LexToken
<1>2. IsSequence(tokens') /\ Len(tokens') = Len(tokens) + 1 /\ Len(tokens) \in Nat
  BY <1>1, AppendFacts, SequenceFacts DEF Balanced, Reads
<1>3. Reads'
  BY <1>1, <1>2 DEF Balanced, Reads
<1>4. During'
  BY <1>1 DEF During
<1> QED BY <1>1, <1>3, <1>4 DEF Balanced

LEMMA LexEOFBalanced ==
  ASSUME Balanced, During, LexEOF
  PROVE  Balanced'
<1>1. PICK x, rest : /\ IsSequence(rest) /\ Head(todo) = x /\ Tail(todo) = rest
                     /\ Proceeds(x, rest, Len(b.stack), Depths(marks))
  BY DuringProceeds
<1>2. x.op = "lex"
  BY <1>1 DEF LexEOF, Doing
<1>3. Fits(rest, Len(b.stack), Depths(marks))
  BY <1>1, <1>2 DEF Proceeds, Atoms
<1>4. todo' = rest
  BY <1>1, ProceedNothing DEF LexEOF
<1>5. UNCHANGED <<tokens, pos, marks, b>>
  BY DEF LexEOF, StandStill
<1> QED BY <1>3, <1>4, <1>5, StandsStill

\* Where Bump ends.
LEMMA BumpEnds ==
  ASSUME Reads
  PROVE  Min({BeforeSignificant + 1, Len(tokens)}) \in pos - 1 .. Len(tokens)
<1>1. PICK k \in Nat, p \in Nat : k = Len(tokens) /\ p = pos /\ p >= 1 /\ p <= k + 1
  BY SequenceFacts DEF Reads
<1>2. PICK q \in Nat : q = BeforeSignificant /\ q >= p - 1 /\ q <= k
  <2>1. BeforeSignificant \in p - 1 .. k
    BY <1>1, BeforeSignificantFacts
  <2>2. p - 1 \in Nat
    BY <1>1
  <2> QED BY <1>1, <2>1, <2>2
<1>3. PICK n : n = Min({q + 1, k})
  OBVIOUS
<1>4. n \in {q + 1, k} /\ n <= k /\ n <= q + 1
  <2>1. {q + 1, k} \in SUBSET Nat /\ k \in {q + 1, k} /\ q + 1 \in {q + 1, k}
    OBVIOUS
  <2> QED BY <1>3, <2>1, LeastIs
<1>5. n \in p - 1 .. k
  BY <1>1, <1>2, <1>4
<1> QED BY <1>1, <1>2, <1>3, <1>5

\* Tokens are emitted.
LEMMA BumpBalanced ==
  ASSUME Balanced, During, DoBump
  PROVE  Balanced'
<1>1. PICK x, rest : /\ IsSequence(rest) /\ Head(todo) = x /\ Tail(todo) = rest
                     /\ Proceeds(x, rest, Len(b.stack), Depths(marks))
  BY DuringProceeds
<1>2. x.op = "bump"
  BY <1>1 DEF DoBump, Doing
<1>3. Fits(rest, Len(b.stack), Depths(marks))
  BY <1>1, <1>2 DEF Proceeds, Atoms
<1>4. todo' = rest
  BY <1>1, ProceedNothing DEF DoBump
<1>5. PICK n : n = Min({BeforeSignificant + 1, Len(tokens)}) /\ n \in pos - 1 .. Len(tokens)
  BY BumpEnds DEF Balanced
<1>6. Emit(n)
  BY <1>5 DEF DoBump
<1> QED BY <1>3, <1>4, <1>5, <1>6, EmitBalanced

LEMMA TriviaBalanced ==
  ASSUME Balanced, During, DoEmitTrivia
  PROVE  Balanced'
<1>1. PICK x, rest : /\ IsSequence(rest) /\ Head(todo) = x /\ Tail(todo) = rest
                     /\ Proceeds(x, rest, Len(b.stack), Depths(marks))
  BY DuringProceeds
<1>2. x.op = "trivia"
  BY <1>1 DEF DoEmitTrivia, Doing
<1>3. Fits(rest, Len(b.stack), Depths(marks))
  BY <1>1, <1>2 DEF Proceeds, Atoms
<1>4. todo' = rest
  BY <1>1, ProceedNothing DEF DoEmitTrivia
<1>5. BeforeSignificant \in pos - 1 .. Len(tokens)
  BY BeforeSignificantFacts DEF Balanced
<1> QED BY <1>3, <1>4, <1>5, EmitBalanced DEF DoEmitTrivia

\* A choice, and a loop that goes on or ends.
LEMMA ChooseBalanced ==
  ASSUME Balanced, During, Choose
  PROVE  Balanced'
<1>1. PICK x, rest : /\ IsSequence(rest) /\ Head(todo) = x /\ Tail(todo) = rest
                     /\ Proceeds(x, rest, Len(b.stack), Depths(marks))
  BY DuringProceeds
<1>2. x.op = "if"
  BY <1>1 DEF Choose, Doing
<1>3. Fits(x.yes \o rest, Len(b.stack), Depths(marks)) /\ Fits(x.no \o rest, Len(b.stack), Depths(marks))
  BY <1>1, <1>2 DEF Proceeds, Atoms
<1>4. PICK s \in {x.yes, x.no} : Proceed(s)
  BY <1>1 DEF Choose
<1>5. todo' = s \o rest
  BY <1>1, <1>4, ProceedIs
<1>6. Fits(todo', Len(b.stack), Depths(marks))
  BY <1>3, <1>4, <1>5
<1>7. UNCHANGED <<tokens, pos, marks, b>>
  BY DEF Choose, StandStill
<1> QED BY <1>6, <1>7, StandsStill

LEMMA IterateBalanced ==
  ASSUME Balanced, During, Iterate
  PROVE  Balanced'
<1>1. PICK x, rest : /\ IsSequence(rest) /\ Head(todo) = x /\ Tail(todo) = rest
                     /\ Proceeds(x, rest, Len(b.stack), Depths(marks))
  BY DuringProceeds
<1>2. x.op \in {"while", "until"}
  BY <1>1 DEF Iterate, AtLoop, Doing
<1>3. /\ Fits(rest, Len(b.stack), Depths(marks))
      /\ \A p : Fits(Append(x.body, [x EXCEPT !.last = p]) \o rest, Len(b.stack), Depths(marks))
  BY <1>1, <1>2 DEF Proceeds, Atoms
<1>4. PICK s : s = Append(x.body, [x EXCEPT !.last = pos])
  OBVIOUS
<1>5. Proceed(s) \/ Proceed(<<>>)
  BY <1>1, <1>4 DEF Iterate
<1>6. todo' = s \o rest \/ todo' = rest
  BY <1>1, <1>5, ProceedIs, ProceedNothing
<1>7. Fits(todo', Len(b.stack), Depths(marks))
  BY <1>3, <1>4, <1>6
<1>8. UNCHANGED <<tokens, pos, marks, b>>
  BY DEF Iterate, StandStill
<1> QED BY <1>7, <1>8, StandsStill

\* A member, whatever it is.
LEMMA MemberBalanced ==
  ASSUME Balanced, During, ParseMember
  PROVE  Balanced'
<1>1. PICK x, rest : /\ IsSequence(rest) /\ Head(todo) = x /\ Tail(todo) = rest
                     /\ Proceeds(x, rest, Len(b.stack), Depths(marks))
  BY DuringProceeds
<1>2. x.op = "member"
  BY <1>1 DEF ParseMember, Doing
<1>3. Fits(rest, Len(b.stack), Depths(marks))
  BY <1>1, <1>2 DEF Proceeds, Atoms
<1>4. PICK keyword : Proceed(MemberOf(keyword))
  BY DEF ParseMember
<1>5. todo' = MemberOf(keyword) \o rest
  BY <1>1, <1>4, ProceedIs
<1>6. Len(b.stack) >= 2
  BY DEF During
<1>7. Fits(MemberOf(keyword) \o rest, Len(b.stack), Depths(marks))
  BY <1>3, <1>6, MemberPlain, FitsFirst
<1>8. UNCHANGED <<tokens, pos, marks, b>>
  BY DEF ParseMember, StandStill
<1> QED BY <1>5, <1>7, <1>8, StandsStill

\* Every step keeps what is to do and the frames in balance.
LEMMA BalancedNext == Balanced /\ [Next]_vars => Balanced'
<1> SUFFICES ASSUME Balanced, [Next]_vars
             PROVE  Balanced'
  OBVIOUS
<1>1. CASE UNCHANGED vars
  BY <1>1 DEF vars, Balanced, Reads, Before, During, After
<1>2. CASE Next
  <2>1. CASE Before
    BY <1>2, <2>1, BeforeNext
  <2>2. CASE After
    BY <1>2, <2>2
       DEF After, Next, Doing, LexToken, LexEOF, DoBump, DoEmitTrivia, DoStartNode, DoFinishNode, Choose,
           AtLoop, Iterate, ReturnEarly, ParseMember, TakeCheckpoint, ChooseKind, WrapMarked
  <2>3. CASE During
    BY <1>2, <2>3, LexBalanced, LexEOFBalanced, BumpBalanced, TriviaBalanced, StartBalanced, FinishBalanced,
       ChooseBalanced, IterateBalanced, ReturnBalanced, MemberBalanced, MarkBalanced, LabelBalanced, WrapBalanced
       DEF Next
  <2> QED BY <2>1, <2>2, <2>3 DEF Balanced
<1> QED BY <1>1, <1>2

\* Parse never panics, whatever the source: FinishNode finds a node that is
\* open, StartNodeAt a checkpoint of the open node that is not behind its
\* children, and Finish one tree (builder.go, as parser.go calls it).
THEOREM NothingPanics == Spec => []NeverPanics
<1>1. Init => Balanced
  BY BalancedInit
<1>2. Balanced /\ [Next]_vars => Balanced'
  BY BalancedNext
<1>3. Balanced => NeverPanics
  BY BalancedNeverPanics
<1> QED BY <1>1, <1>2, <1>3, PTL DEF Spec
-----------------------------------------------------------------------------
(***************************************************************************)
(* Parse loses nothing: the text of the tree is the source, trivia         *)
(* included.                                                               *)
(*                                                                         *)
(* The argument has four parts.  The text of a node is that of its         *)
(* children, which come before it in the arena, so that arenas may grow    *)
(* without changing texts; the operations of the builder add the text of a *)
(* token at the end, or no text (StackText).  The lexer takes at least one *)
(* character and no more than there are (ScanFacts).  Hence the source is  *)
(* always told: what has been lexed, and of that what has been emitted     *)
(* (Told).  And the parse ends only when all has been: the last loop of    *)
(* SourceFile stops at EOF alone, and no function that returns early drops *)
(* what SourceFile has still to do (Ending).                               *)
(***************************************************************************)
(***************************************************************************)
(* The texts of the nodes of an arena, in which the children of a node     *)
(* come before it.  The text of a child, when f is that of the nodes:      *)
(***************************************************************************)
Piece(x, f, child) == IF child.leaf THEN x.leaves[child.at].text ELSE f[child.at]
Pieces(x, f, cs) == [j \in DOMAIN cs |-> Piece(x, f, cs[j])]

\* The recursive function of Texts, for the first n nodes.
IsText(x, f, n) == f = [i \in 1 .. n |-> FlattenSeq(Pieces(x, f, x.nodes[i].children))]

\* Leaves, and nodes among the first n.
ChildOf(x, child, n) ==
  /\ child.leaf \in BOOLEAN
  /\ child.leaf => child.at \in DOMAIN x.leaves
  /\ ~child.leaf => child.at \in 1 .. n
ChildrenOf(x, cs, n) == IsSequence(cs) /\ \A j \in DOMAIN cs : ChildOf(x, cs[j], n)

IsArena(x) ==
  /\ IsSequence(x.leaves) /\ IsSequence(x.nodes)
  /\ \A i \in DOMAIN x.leaves : IsSequence(x.leaves[i].text)
  /\ \A i \in DOMAIN x.nodes : ChildrenOf(x, x.nodes[i].children, i - 1)

\* The arenas of y have all that those of x have.
Extends(x, y) ==
  /\ Len(x.leaves) <= Len(y.leaves) /\ \A i \in DOMAIN x.leaves : y.leaves[i] = x.leaves[i]
  /\ Len(x.nodes) <= Len(y.nodes) /\ \A i \in DOMAIN x.nodes : y.nodes[i] = x.nodes[i]

\* The pieces depend on the leaves and the nodes that there are.
LEMMA PiecesAgree ==
  ASSUME NEW x, NEW y, NEW f, NEW g, NEW cs, NEW n, ChildrenOf(x, cs, n),
         \A i \in DOMAIN x.leaves : y.leaves[i] = x.leaves[i], \A i \in 1 .. n : f[i] = g[i]
  PROVE  Pieces(x, f, cs) = Pieces(y, g, cs)
<1>1. ASSUME NEW j \in DOMAIN cs
      PROVE  Piece(x, f, cs[j]) = Piece(y, g, cs[j])
  <2>1. PICK c : c = cs[j]
    OBVIOUS
  <2>2. ChildOf(x, c, n)
    BY <2>1 DEF ChildrenOf
  <2>3. CASE c.leaf
    BY <2>1, <2>2, <2>3 DEF ChildOf, Piece
  <2>4. CASE ~c.leaf
    BY <2>1, <2>2, <2>4 DEF ChildOf, Piece
  <2> QED BY <2>3, <2>4
<1> QED BY <1>1 DEF Pieces

\* The recursive function exists.
LEMMA TextExists ==
  ASSUME NEW x, IsArena(x)
  PROVE  \E f : IsText(x, f, Len(x.nodes))
<1>1. PICK l \in Nat : l = Len(x.nodes) /\ DOMAIN x.nodes = 1 .. l
  BY SequenceFacts DEF IsArena
<1> DEFINE T == {n \in 0 .. l : ~\E f : IsText(x, f, n)}
<1> SUFFICES T = {}
  BY <1>1
<1> SUFFICES ASSUME T # {}
             PROVE  FALSE
  OBVIOUS
<1>2. T \in SUBSET Nat
  OBVIOUS
<1>3. PICK m \in T : \A n \in T : m <= n
  BY <1>2, LeastElement
<1>4. m \in 0 .. l /\ ~\E f : IsText(x, f, m)
  OBVIOUS
<1>5. CASE m = 0
  <2> DEFINE f == [i \in 1 .. 0 |-> <<>>]
  <2>1. IsText(x, f, 0)
    BY DEF IsText
  <2> QED BY <1>4, <1>5, <2>1
<1>6. CASE m # 0
  <2>1. PICK k \in Nat : k = m - 1 /\ m = k + 1 /\ k \in 0 .. l /\ ~(m <= k) /\ m \in 1 .. l
    BY <1>4, <1>6
  <2>2. k \notin T
    BY <1>3, <2>1
  <2>3. PICK f : IsText(x, f, k)
    BY <2>1, <2>2
  <2> HIDE DEF T
  <2> DEFINE Of(h, i) == FlattenSeq(Pieces(x, h, x.nodes[i].children))
             g == [i \in 1 .. m |-> IF i = m THEN Of(f, m) ELSE f[i]]
  <2>4. \A i \in 1 .. m : i = m \/ (i \in 1 .. k /\ i # m)
    BY <2>1
  <2>5. \A i \in 1 .. k : i \in 1 .. m /\ i # m
    BY <2>1
  <2>6. \A i \in 1 .. k : f[i] = g[i] /\ f[i] = Of(f, i)
    BY <2>3, <2>5 DEF IsText
  <2>7. g[m] = Of(f, m) /\ g = [i \in 1 .. m |-> g[i]]
    BY <2>1
  <2> HIDE DEF g
  <2>8. ASSUME NEW i \in 1 .. m
        PROVE  Of(f, i) = Of(g, i)
    <3>1. i \in DOMAIN x.nodes
      BY <1>1, <1>4
    <3>2. ChildrenOf(x, x.nodes[i].children, i - 1)
      BY <3>1 DEF IsArena
    <3>3. \A j \in 1 .. i - 1 : j \in 1 .. k
      BY <2>1
    <3>4. \A j \in 1 .. i - 1 : f[j] = g[j]
      BY <2>6, <3>3
    <3>5. Pieces(x, f, x.nodes[i].children) = Pieces(x, g, x.nodes[i].children)
      BY <3>2, <3>4, PiecesAgree
    <3> QED BY <3>5
  <2>9. \A i \in 1 .. m : g[i] = Of(g, i)
    BY <2>4, <2>6, <2>7, <2>8
  <2>10. IsText(x, g, m)
    BY <2>7, <2>9 DEF IsText
  <2> QED BY <1>4, <2>10
<1> QED BY <1>5, <1>6

\* It is what Texts is.
LEMMA TextsIs ==
  ASSUME NEW x, IsArena(x)
  PROVE  IsText(x, Texts(x), Len(x.nodes))
<1>1. DOMAIN x.nodes = 1 .. Len(x.nodes)
  BY SequenceFacts DEF IsArena
<1>2. PICK f : IsText(x, f, Len(x.nodes))
  BY TextExists
<1>3. Texts(x) = CHOOSE t : IsText(x, t, Len(x.nodes))
  BY <1>1 DEF Texts, IsText, Pieces, Piece
<1> QED BY <1>2, <1>3

\* Nodes keep their texts when the arenas grow.
LEMMA TextsAgree ==
  ASSUME NEW x, NEW y, IsArena(x), IsArena(y), Extends(x, y)
  PROVE  \A i \in 1 .. Len(x.nodes) : Texts(x)[i] = Texts(y)[i]
<1>1. PICK l \in Nat, k \in Nat : l = Len(x.nodes) /\ k = Len(y.nodes) /\ l <= k
                                  /\ DOMAIN x.nodes = 1 .. l /\ DOMAIN y.nodes = 1 .. k
  BY SequenceFacts DEF IsArena, Extends
<1>2. PICK f, g : f = Texts(x) /\ g = Texts(y)
  OBVIOUS
<1>3. IsText(x, f, l) /\ IsText(y, g, k)
  BY <1>1, <1>2, TextsIs
<1> DEFINE T == {i \in 1 .. l : f[i] # g[i]}
<1> SUFFICES T = {}
  BY <1>1, <1>2
<1> SUFFICES ASSUME T # {}
             PROVE  FALSE
  OBVIOUS
<1>4. T \in SUBSET Nat
  OBVIOUS
<1>5. PICK m \in T : \A n \in T : m <= n
  BY <1>4, LeastElement
<1>6. m \in 1 .. l /\ m \in 1 .. k /\ f[m] # g[m]
  BY <1>1
<1>7. \A i \in 1 .. m - 1 : f[i] = g[i]
  <2> TAKE i \in 1 .. m - 1
  <2>1. i \in 1 .. l /\ ~(m <= i)
    BY <1>1, <1>6
  <2> QED BY <1>5, <2>1
<1> HIDE DEF T
<1>8. PICK cs : cs = x.nodes[m].children /\ cs = y.nodes[m].children
  BY <1>1, <1>6 DEF Extends
<1>9. ChildrenOf(x, cs, m - 1)
  BY <1>1, <1>6, <1>8 DEF IsArena
<1>10. Pieces(x, f, cs) = Pieces(y, g, cs)
  BY <1>7, <1>9, PiecesAgree DEF Extends
<1>11. f[m] = FlattenSeq(Pieces(x, f, cs)) /\ g[m] = FlattenSeq(Pieces(y, g, cs))
  BY <1>3, <1>6, <1>8 DEF IsText
<1> QED BY <1>6, <1>10, <1>11

\* Texts are sequences.
LEMMA TextsAreSequences ==
  ASSUME NEW x, IsArena(x)
  PROVE  \A i \in 1 .. Len(x.nodes) : IsSequence(Texts(x)[i])
<1>1. PICK l \in Nat : l = Len(x.nodes) /\ DOMAIN x.nodes = 1 .. l
  BY SequenceFacts DEF IsArena
<1>2. PICK f : f = Texts(x)
  OBVIOUS
<1>3. IsText(x, f, l)
  BY <1>1, <1>2, TextsIs
<1> DEFINE T == {i \in 1 .. l : ~IsSequence(f[i])}
<1> SUFFICES T = {}
  BY <1>1, <1>2
<1> SUFFICES ASSUME T # {}
             PROVE  FALSE
  OBVIOUS
<1>4. T \in SUBSET Nat
  OBVIOUS
<1>5. PICK m \in T : \A n \in T : m <= n
  BY <1>4, LeastElement
<1>6. m \in 1 .. l /\ ~IsSequence(f[m])
  BY <1>1
<1>7. \A i \in 1 .. m - 1 : IsSequence(f[i])
  <2> TAKE i \in 1 .. m - 1
  <2>1. i \in 1 .. l /\ ~(m <= i)
    BY <1>1, <1>6
  <2> QED BY <1>5, <2>1
<1> HIDE DEF T
<1>8. PICK cs : cs = x.nodes[m].children
  OBVIOUS
<1>9. ChildrenOf(x, cs, m - 1)
  BY <1>1, <1>6, <1>8 DEF IsArena
<1>10. ASSUME NEW j \in DOMAIN cs
       PROVE  IsSequence(Piece(x, f, cs[j]))
  <2>1. PICK c : c = cs[j]
    OBVIOUS
  <2>2. ChildOf(x, c, m - 1)
    BY <1>9, <2>1 DEF ChildrenOf
  <2>3. CASE c.leaf
    BY <2>1, <2>2, <2>3 DEF ChildOf, Piece, IsArena
  <2>4. CASE ~c.leaf
    BY <1>7, <2>1, <2>2, <2>4 DEF ChildOf, Piece
  <2> QED BY <2>3, <2>4
<1>11. IsSequence(Pieces(x, f, cs)) /\ \A j \in DOMAIN Pieces(x, f, cs) : IsSequence(Pieces(x, f, cs)[j])
  <2>1. PICK n \in Nat : n = Len(cs) /\ DOMAIN cs = 1 .. n
    BY <1>9, SequenceFacts DEF ChildrenOf
  <2>2. PICK p : p = Pieces(x, f, cs)
    OBVIOUS
  <2>3. p = [j \in 1 .. n |-> p[j]] /\ \A j \in 1 .. n : p[j] = Piece(x, f, cs[j])
    BY <2>1, <2>2 DEF Pieces
  <2>4. IsSequence(p) /\ DOMAIN p = 1 .. n
    BY <2>3, SequenceOf
  <2> QED BY <1>10, <2>1, <2>2, <2>3, <2>4
<1>12. IsSequence(FlattenSeq(Pieces(x, f, cs)))
  BY <1>11, FlattenIsSequence
<1>13. f[m] = FlattenSeq(Pieces(x, f, cs))
  BY <1>3, <1>6, <1>8 DEF IsText
<1> QED BY <1>6, <1>12, <1>13

\* The text of children is that of their pieces.
LEMMA ChildrenTextIs ==
  ASSUME NEW x, NEW cs
  PROVE  ChildrenText(x, cs) = FlattenSeq(Pieces(x, Texts(x), cs))
BY DEF ChildrenText, Pieces, Piece

\* The children of a frame, and of all frames of a stack.
Children(x, cs) == ChildrenOf(x, cs, Len(x.nodes))
Frames(x, stack) == IsSequence(stack) /\ \A i \in DOMAIN stack : Children(x, stack[i].children)

\* The texts of children are sequences.
LEMMA PiecesFacts ==
  ASSUME NEW x, IsArena(x), NEW cs, Children(x, cs)
  PROVE  /\ IsSequence(Pieces(x, Texts(x), cs)) /\ Len(Pieces(x, Texts(x), cs)) = Len(cs)
         /\ \A j \in 1 .. Len(cs) : Pieces(x, Texts(x), cs)[j] = Piece(x, Texts(x), cs[j])
         /\ \A j \in 1 .. Len(cs) : IsSequence(Pieces(x, Texts(x), cs)[j])
<1>1. PICK n \in Nat : n = Len(cs) /\ DOMAIN cs = 1 .. n
  BY SequenceFacts DEF Children, ChildrenOf
<1>2. PICK f : f = Texts(x)
  OBVIOUS
<1>3. PICK p : p = Pieces(x, f, cs)
  OBVIOUS
<1>4. p = [j \in 1 .. n |-> p[j]] /\ \A j \in 1 .. n : p[j] = Piece(x, f, cs[j])
  BY <1>1, <1>3 DEF Pieces
<1>5. IsSequence(p) /\ Len(p) = n
  BY <1>4, SequenceOf
<1>6. ASSUME NEW j \in 1 .. n
      PROVE  IsSequence(Piece(x, f, cs[j]))
  <2>1. PICK c : c = cs[j]
    OBVIOUS
  <2>2. ChildOf(x, c, Len(x.nodes))
    BY <1>1, <2>1 DEF Children, ChildrenOf
  <2>3. CASE c.leaf
    BY <2>1, <2>2, <2>3 DEF ChildOf, Piece, IsArena
  <2>4. CASE ~c.leaf
    BY <1>2, <2>1, <2>2, <2>4, TextsAreSequences DEF ChildOf, Piece
  <2> QED BY <2>3, <2>4
<1> QED BY <1>1, <1>2, <1>3, <1>4, <1>5, <1>6

\* The text of children is a sequence.
LEMMA ChildrenTextSequence ==
  ASSUME NEW x, IsArena(x), NEW cs, Children(x, cs)
  PROVE  IsSequence(ChildrenText(x, cs))
<1>1. PICK p : p = Pieces(x, Texts(x), cs)
  OBVIOUS
<1>2. IsSequence(p) /\ Len(p) = Len(cs) /\ \A j \in 1 .. Len(cs) : IsSequence(p[j])
  BY <1>1, PiecesFacts
<1>3. \A j \in DOMAIN p : IsSequence(p[j])
  BY <1>2, SequenceFacts
<1>4. IsSequence(FlattenSeq(p))
  BY <1>2, <1>3, FlattenIsSequence
<1> QED BY <1>1, <1>4, ChildrenTextIs

\* Children one after the other.
LEMMA ChildrenConcat ==
  ASSUME NEW x, NEW n, NEW cs, NEW ds, ChildrenOf(x, cs, n), ChildrenOf(x, ds, n)
  PROVE  ChildrenOf(x, cs \o ds, n)
<1>1. PICK k \in Nat, l \in Nat : k = Len(cs) /\ DOMAIN cs = 1 .. k /\ l = Len(ds) /\ DOMAIN ds = 1 .. l
  BY SequenceFacts DEF ChildrenOf
<1>2. PICK es : es = cs \o ds
  OBVIOUS
<1>3. /\ IsSequence(es) /\ Len(es) = k + l
      /\ \A i \in 1 .. k + l : es[i] = IF i <= k THEN cs[i] ELSE ds[i - k]
  BY <1>1, <1>2, ConcatFacts DEF ChildrenOf
<1>4. DOMAIN es = 1 .. k + l
  BY <1>3, SequenceFacts
<1>5. \A i \in 1 .. k + l : (i \in 1 .. k /\ i <= k) \/ (~(i <= k) /\ i - k \in 1 .. l)
  OBVIOUS
<1>6. \A i \in 1 .. k + l : ChildOf(x, es[i], n)
  BY <1>1, <1>3, <1>5 DEF ChildrenOf
<1> QED BY <1>2, <1>3, <1>4, <1>6 DEF ChildrenOf

\* Their text is that of the one and then that of the others.
LEMMA ChildrenTextConcat ==
  ASSUME NEW x, IsArena(x), NEW cs, NEW ds, Children(x, cs), Children(x, ds)
  PROVE  ChildrenText(x, cs \o ds) = ChildrenText(x, cs) \o ChildrenText(x, ds)
<1>1. PICK k \in Nat, l \in Nat : k = Len(cs) /\ l = Len(ds) /\ IsSequence(cs) /\ IsSequence(ds)
  BY SequenceFacts DEF Children, ChildrenOf
<1>2. PICK es : es = cs \o ds
  OBVIOUS
<1>3. /\ Children(x, es) /\ Len(es) = k + l
      /\ \A i \in 1 .. k + l : es[i] = IF i <= k THEN cs[i] ELSE ds[i - k]
  BY <1>1, <1>2, ConcatFacts, ChildrenConcat DEF Children
<1>4. PICK f : f = Texts(x)
  OBVIOUS
<1>5. PICK p, q, r : p = Pieces(x, f, cs) /\ q = Pieces(x, f, ds) /\ r = Pieces(x, f, es)
  OBVIOUS
<1>6. /\ IsSequence(p) /\ Len(p) = k /\ \A j \in 1 .. k : p[j] = Piece(x, f, cs[j]) /\ IsSequence(p[j])
      /\ IsSequence(q) /\ Len(q) = l /\ \A j \in 1 .. l : q[j] = Piece(x, f, ds[j]) /\ IsSequence(q[j])
      /\ IsSequence(r) /\ Len(r) = k + l /\ \A j \in 1 .. k + l : r[j] = Piece(x, f, es[j])
  BY <1>1, <1>3, <1>4, <1>5, PiecesFacts
<1>7. PICK s : s = p \o q
  OBVIOUS
<1>8. /\ IsSequence(s) /\ Len(s) = k + l
      /\ \A i \in 1 .. k + l : s[i] = IF i <= k THEN p[i] ELSE q[i - k]
  BY <1>6, <1>7, ConcatFacts
<1>9. \A i \in 1 .. k + l : (i \in 1 .. k /\ i <= k) \/ (~(i <= k) /\ i - k \in 1 .. l)
  OBVIOUS
<1>10. \A i \in 1 .. k + l : s[i] = r[i]
  <2> TAKE i \in 1 .. k + l
  <2>1. CASE i <= k
    BY <1>3, <1>6, <1>8, <1>9, <2>1
  <2>2. CASE ~(i <= k)
    <3>1. PICK h : h = i - k /\ h \in 1 .. l
      BY <1>9, <2>2
    <3>2. s[i] = q[h] /\ es[i] = ds[h]
      BY <1>3, <1>8, <2>2, <3>1
    <3> QED BY <1>6, <3>1, <3>2
  <2> QED BY <2>1, <2>2
<1>11. s = r
  BY <1>6, <1>8, <1>10, SameSequence
<1>12. FlattenSeq(p \o q) = FlattenSeq(p) \o FlattenSeq(q)
  <2>1. (\A i \in DOMAIN p : IsSequence(p[i])) /\ \A i \in DOMAIN q : IsSequence(q[i])
    BY <1>6, SequenceFacts
  <2> QED BY <1>6, <2>1, FlattenConcat
<1>13. FlattenSeq(r) = FlattenSeq(p) \o FlattenSeq(q)
  BY <1>7, <1>11, <1>12
<1> QED BY <1>2, <1>4, <1>5, <1>13, ChildrenTextIs

\* A single child.
LEMMA ChildTextIs ==
  ASSUME NEW x, IsArena(x), NEW c, ChildOf(x, c, Len(x.nodes))
  PROVE  Children(x, <<c>>) /\ ChildrenText(x, <<c>>) = Piece(x, Texts(x), c)
<1>1. PICK cs : cs = <<c>> /\ IsSequence(cs) /\ Len(cs) = 1 /\ DOMAIN cs = {1} /\ cs[1] = c
  BY SingleFacts
<1>2. Children(x, cs)
  BY <1>1 DEF Children, ChildrenOf
<1>3. PICK t : t = Piece(x, Texts(x), c)
  OBVIOUS
<1>4. PICK p : p = Pieces(x, Texts(x), cs)
  OBVIOUS
<1>5. IsSequence(p) /\ Len(p) = 1 /\ p[1] = t /\ IsSequence(t)
  BY <1>1, <1>2, <1>3, <1>4, PiecesFacts
<1>6. p = <<t>>
  <2>1. IsSequence(<<t>>) /\ Len(<<t>>) = 1 /\ <<t>>[1] = t
    BY SingleFacts
  <2>2. \A i \in 1 .. 1 : i = 1
    OBVIOUS
  <2> QED BY <1>5, <2>1, <2>2, SameSequence
<1>7. FlattenSeq(<<t>>) = t
  BY <1>5, FlattenSingle
<1>8. ChildrenText(x, cs) = FlattenSeq(p)
  BY <1>4, ChildrenTextIs
<1> QED BY <1>1, <1>2, <1>3, <1>6, <1>7, <1>8

\* No children have no text.
LEMMA NoChildren ==
  ASSUME NEW x, IsArena(x)
  PROVE  Children(x, <<>>) /\ ChildrenText(x, <<>>) = <<>>
<1>1. PICK cs : cs = <<>> /\ IsSequence(cs) /\ Len(cs) = 0 /\ DOMAIN cs = {}
  BY EmptyIsSequence
<1>2. Children(x, cs)
  BY <1>1 DEF Children, ChildrenOf
<1>3. PICK p : p = Pieces(x, Texts(x), cs)
  OBVIOUS
<1>4. IsSequence(p) /\ Len(p) = 0
  BY <1>1, <1>2, <1>3, PiecesFacts
<1>5. p = <<>>
  BY <1>4, OnlyEmpty
<1>6. ChildrenText(x, cs) = FlattenSeq(p)
  BY <1>3, ChildrenTextIs
<1> QED BY <1>1, <1>2, <1>5, <1>6, FlattenEmpty

\* Children are children of arenas that have more, with the same text.
LEMMA ChildrenKeep ==
  ASSUME NEW x, NEW y, IsArena(x), IsArena(y), Extends(x, y), NEW cs, Children(x, cs)
  PROVE  Children(y, cs) /\ ChildrenText(y, cs) = ChildrenText(x, cs)
<1>1. /\ Len(x.nodes) \in Nat /\ Len(y.nodes) \in Nat /\ Len(x.leaves) \in Nat /\ Len(y.leaves) \in Nat
      /\ DOMAIN x.leaves = 1 .. Len(x.leaves) /\ DOMAIN y.leaves = 1 .. Len(y.leaves)
  BY SequenceFacts DEF IsArena
<1>2. Len(x.nodes) <= Len(y.nodes) /\ Len(x.leaves) <= Len(y.leaves)
  BY DEF Extends
<1>3. (\A i \in 1 .. Len(x.nodes) : i \in 1 .. Len(y.nodes))
      /\ \A i \in DOMAIN x.leaves : i \in DOMAIN y.leaves
  BY <1>1, <1>2
<1>4. Children(y, cs)
  BY <1>3 DEF Children, ChildrenOf, ChildOf
<1>5. PICK f, g : f = Texts(x) /\ g = Texts(y)
  OBVIOUS
<1>6. \A i \in 1 .. Len(x.nodes) : f[i] = g[i]
  BY <1>5, TextsAgree
<1>7. Pieces(x, f, cs) = Pieces(y, g, cs)
  BY <1>6, PiecesAgree DEF Children, Extends
<1> QED BY <1>4, <1>5, <1>7, ChildrenTextIs
-----------------------------------------------------------------------------
(***************************************************************************)
(* The text of a stack of frames, and what the builder's operations do to  *)
(* it.                                                                     *)
(***************************************************************************)
Layout(x, stack) == [i \in DOMAIN stack |-> ChildrenText(x, stack[i].children)]
StackText(x) == FlattenSeq(Layout(x, x.stack))

\* The texts of the frames.
LEMMA LayoutFacts ==
  ASSUME NEW x, IsArena(x), NEW stack, Frames(x, stack)
  PROVE  /\ IsSequence(Layout(x, stack)) /\ Len(Layout(x, stack)) = Len(stack)
         /\ \A i \in 1 .. Len(stack) : Layout(x, stack)[i] = ChildrenText(x, stack[i].children)
         /\ \A i \in 1 .. Len(stack) : IsSequence(Layout(x, stack)[i])
         /\ IsSequence(FlattenSeq(Layout(x, stack)))
<1>1. PICK n \in Nat : n = Len(stack) /\ DOMAIN stack = 1 .. n
  BY SequenceFacts DEF Frames
<1>2. PICK l : l = Layout(x, stack)
  OBVIOUS
<1>3. l = [i \in 1 .. n |-> l[i]] /\ \A i \in 1 .. n : l[i] = ChildrenText(x, stack[i].children)
  BY <1>1, <1>2 DEF Layout
<1>4. IsSequence(l) /\ Len(l) = n
  BY <1>3, SequenceOf
<1>5. \A i \in 1 .. n : IsSequence(l[i])
  BY <1>1, <1>3, ChildrenTextSequence DEF Frames
<1>6. \A i \in DOMAIN l : IsSequence(l[i])
  BY <1>4, <1>5, SequenceFacts
<1>7. IsSequence(FlattenSeq(l))
  BY <1>4, <1>6, FlattenIsSequence
<1> QED BY <1>1, <1>2, <1>3, <1>4, <1>5, <1>7

\* A frame on top of others.
LEMMA FramesEnd ==
  ASSUME NEW x, NEW stack, NEW r, NEW f, IsSequence(stack), EndsWith(stack, r, f)
  PROVE  Frames(x, stack) <=> Frames(x, r) /\ Children(x, f.children)
<1>1. PICK n \in Nat : n = Len(r) /\ Len(stack) = n + 1 /\ DOMAIN r = 1 .. n /\ DOMAIN stack = 1 .. n + 1
  BY SequenceFacts DEF EndsWith
<1>2. IsSequence(r) /\ f = stack[n + 1] /\ \A i \in 1 .. n : r[i] = stack[i]
  BY <1>1 DEF EndsWith
<1>3. (\A i \in 1 .. n + 1 : i \in 1 .. n \/ i = n + 1) /\ (\A i \in 1 .. n : i \in 1 .. n + 1)
      /\ n + 1 \in 1 .. n + 1
  OBVIOUS
<1>4. ASSUME Frames(x, stack)
      PROVE  Frames(x, r) /\ Children(x, f.children)
  <2>1. \A i \in 1 .. n + 1 : Children(x, stack[i].children)
    BY <1>1, <1>4 DEF Frames
  <2> QED BY <1>1, <1>2, <1>3, <2>1 DEF Frames
<1>5. ASSUME Frames(x, r), Children(x, f.children)
      PROVE  Frames(x, stack)
  <2>1. \A i \in 1 .. n : Children(x, r[i].children)
    BY <1>1, <1>5 DEF Frames
  <2>2. \A i \in 1 .. n + 1 : Children(x, stack[i].children)
    BY <1>2, <1>3, <1>5, <2>1
  <2> QED BY <1>1, <2>2 DEF Frames
<1> QED BY <1>4, <1>5

\* Its text comes last.
LEMMA LayoutEnd ==
  ASSUME NEW x, IsArena(x), NEW stack, NEW r, NEW f, Frames(x, stack), EndsWith(stack, r, f)
  PROVE  FlattenSeq(Layout(x, stack)) = FlattenSeq(Layout(x, r)) \o ChildrenText(x, f.children)
<1>1. Frames(x, r) /\ Children(x, f.children)
  BY FramesEnd DEF Frames
<1>2. PICK n \in Nat : n = Len(r) /\ Len(stack) = n + 1
  BY DEF EndsWith
<1>3. f = stack[n + 1] /\ \A i \in 1 .. n : r[i] = stack[i]
  BY <1>2 DEF EndsWith
<1>4. PICK l, m, t : l = Layout(x, stack) /\ m = Layout(x, r) /\ t = ChildrenText(x, f.children)
  OBVIOUS
<1>5. /\ IsSequence(l) /\ Len(l) = n + 1
      /\ \A i \in 1 .. n + 1 : l[i] = ChildrenText(x, stack[i].children)
  BY <1>2, <1>4, LayoutFacts
<1>6. /\ IsSequence(m) /\ Len(m) = n
      /\ \A i \in 1 .. n : m[i] = ChildrenText(x, r[i].children)
  BY <1>1, <1>2, <1>4, LayoutFacts
<1>7. IsSequence(t)
  BY <1>1, <1>4, ChildrenTextSequence
<1>8. PICK q : q = Append(m, t)
  OBVIOUS
<1>9. /\ IsSequence(q) /\ Len(q) = n + 1 /\ \A i \in 1 .. n : q[i] = m[i]
      /\ q[n + 1] = t
  BY <1>6, <1>8, AppendFacts
<1>10. \A i \in 1 .. n + 1 : q[i] = l[i]
  <2>1. \A i \in 1 .. n + 1 : i \in 1 .. n \/ i = n + 1
    OBVIOUS
  <2>2. \A i \in 1 .. n : i \in 1 .. n + 1
    OBVIOUS
  <2>3. \A i \in 1 .. n : q[i] = l[i]
    BY <1>3, <1>5, <1>6, <1>9, <2>2
  <2>4. n + 1 \in 1 .. n + 1
    OBVIOUS
  <2>5. q[n + 1] = l[n + 1]
    BY <1>3, <1>4, <1>5, <1>9, <2>4
  <2> QED BY <2>1, <2>3, <2>5
<1>11. q = l
  BY <1>5, <1>9, <1>10, SameSequence
<1>12. l = m \o <<t>>
  BY <1>6, <1>8, <1>11, AppendConcat
<1>13. FlattenSeq(m \o <<t>>) = FlattenSeq(m) \o t
  BY <1>6, <1>7, FlattenAppend
<1> QED BY <1>4, <1>12, <1>13

\* Frames are frames of arenas that have more, with the same texts.
LEMMA LayoutKeeps ==
  ASSUME NEW x, NEW y, IsArena(x), IsArena(y), Extends(x, y), NEW stack, Frames(x, stack)
  PROVE  Frames(y, stack) /\ Layout(y, stack) = Layout(x, stack)
<1>1. \A i \in DOMAIN stack : /\ Children(y, stack[i].children)
                              /\ ChildrenText(y, stack[i].children) = ChildrenText(x, stack[i].children)
  BY ChildrenKeep DEF Frames
<1> QED BY <1>1 DEF Frames, Layout

\* The open node gets a child.
LEMMA AdoptText ==
  ASSUME NEW x, IsArena(x), NEW stack, IsStack(stack), Len(stack) >= 1, Frames(x, stack),
         NEW c, ChildOf(x, c, Len(x.nodes))
  PROVE  LET new == Adopt(stack, c)
         IN  /\ Frames(x, new)
             /\ FlattenSeq(Layout(x, new)) = FlattenSeq(Layout(x, stack)) \o Piece(x, Texts(x), c)
<1>1. stack # <<>> /\ IsSequence(stack)
  BY EmptyIsSequence DEF IsStack
<1>2. PICK r, f : EndsWith(stack, r, f)
  BY <1>1, FrontAndLast
<1>3. PICK n \in Nat : n = Len(r) /\ Len(stack) = n + 1
  BY <1>2 DEF EndsWith
<1>4. IsSequence(r) /\ f = stack[n + 1] /\ \A i \in 1 .. n : r[i] = stack[i]
  BY <1>2, <1>3 DEF EndsWith
<1>5. PICK new : new = Adopt(stack, c)
  OBVIOUS
<1>6. Grows(stack, new) /\ new[Len(stack)].children = Append(stack[Len(stack)].children, c)
  BY <1>5, AdoptFacts
<1>7. IsSequence(new) /\ Len(new) = n + 1 /\ \A i \in 1 .. n : new[i] = stack[i]
  <2>1. Len(stack) - 1 = n
    BY <1>3
  <2> QED BY <1>3, <1>6, <2>1 DEF Grows, IsStack
<1>8. PICK g : g = new[n + 1]
  OBVIOUS
<1>9. EndsWith(new, r, g)
  <2>1. new # <<>>
    BY <1>7, EmptyIsSequence
  <2>2. PICK q, h : EndsWith(new, q, h)
    BY <1>7, <2>1, FrontAndLast
  <2>3. IsSequence(q) /\ Len(q) = n /\ h = new[n + 1] /\ \A i \in 1 .. n : q[i] = new[i]
    BY <1>7, <2>2 DEF EndsWith
  <2>4. q = r
    BY <1>3, <1>4, <1>7, <2>3, SameSequence
  <2> QED BY <1>8, <2>2, <2>3, <2>4
<1>10. Frames(x, r) /\ Children(x, f.children)
  BY <1>1, <1>2, FramesEnd
<1>11. PICK cs, d : cs = f.children /\ d = <<c>>
  OBVIOUS
<1>12. g.children = cs \o d
  <2>1. g.children = Append(cs, c)
    BY <1>3, <1>4, <1>6, <1>8, <1>11
  <2>2. IsSequence(cs)
    BY <1>10, <1>11 DEF Children, ChildrenOf
  <2> QED BY <1>11, <2>1, <2>2, AppendConcat
<1>13. Children(x, d) /\ ChildrenText(x, d) = Piece(x, Texts(x), c)
  BY <1>11, ChildTextIs
<1>14. Children(x, cs \o d) /\ ChildrenText(x, cs \o d) = ChildrenText(x, cs) \o ChildrenText(x, d)
  BY <1>10, <1>11, <1>13, ChildrenConcat, ChildrenTextConcat DEF Children
<1>15. Frames(x, new)
  BY <1>7, <1>9, <1>10, <1>12, <1>14, FramesEnd
<1>16. PICK F, G, H : F = FlattenSeq(Layout(x, r)) /\ G = ChildrenText(x, cs) /\ H = ChildrenText(x, d)
  OBVIOUS
<1>17. IsSequence(F) /\ IsSequence(G) /\ IsSequence(H)
  BY <1>10, <1>11, <1>13, <1>16, LayoutFacts, ChildrenTextSequence
<1>18. FlattenSeq(Layout(x, stack)) = F \o G
  BY <1>2, <1>11, <1>16, LayoutEnd
<1>19. FlattenSeq(Layout(x, new)) = F \o (G \o H)
  <2>1. PICK t : t = ChildrenText(x, g.children)
    OBVIOUS
  <2>2. t = G \o H
    BY <1>12, <1>14, <1>16, <2>1
  <2>3. FlattenSeq(Layout(x, new)) = F \o t
    BY <1>9, <1>15, <1>16, <2>1, LayoutEnd
  <2> QED BY <2>2, <2>3
<1>20. (F \o G) \o H = F \o (G \o H)
  BY <1>17, ConcatAssociates, SMTT(30)
<1> QED BY <1>5, <1>13, <1>15, <1>16, <1>18, <1>19, <1>20

\* An arena that holds e once more, if it does not yet.
LEMMA InternFacts ==
  ASSUME NEW a, NEW e, IsSequence(a)
  PROVE  LET n == Intern(a, e)
             h == Handle(n, e)
         IN  /\ IsSequence(n) /\ Len(a) <= Len(n) /\ \A i \in DOMAIN a : n[i] = a[i]
             /\ \A i \in DOMAIN n : i \in DOMAIN a \/ (i = Len(a) + 1 /\ n[i] = e)
             /\ h \in DOMAIN n /\ n[h] = e
<1>1. PICK l \in Nat : l = Len(a) /\ DOMAIN a = 1 .. l
  BY SequenceFacts
<1>2. PICK n, h : n = Intern(a, e) /\ h = Handle(n, e)
  OBVIOUS
<1>3. CASE e \in ToSet(a)
  <2>1. n = a
    BY <1>2, <1>3 DEF Intern
  <2>2. \E i \in DOMAIN a : a[i] = e
    BY <1>3 DEF ToSet
  <2>3. h \in DOMAIN n /\ n[h] = e
    BY <1>2, <2>1, <2>2 DEF Handle
  <2> QED BY <1>1, <1>2, <2>1, <2>3
<1>4. CASE e \notin ToSet(a)
  <2>1. n = Append(a, e)
    BY <1>2, <1>4 DEF Intern
  <2>2. /\ IsSequence(n) /\ Len(n) = l + 1 /\ \A i \in 1 .. l : n[i] = a[i]
        /\ n[l + 1] = e
    BY <1>1, <2>1, AppendFacts
  <2>3. DOMAIN n = 1 .. l + 1
    BY <2>2, SequenceFacts
  <2>4. (\A i \in 1 .. l + 1 : i \in 1 .. l \/ i = l + 1) /\ l + 1 \in 1 .. l + 1
    OBVIOUS
  <2>5. h \in DOMAIN n /\ n[h] = e
    BY <1>2, <2>2, <2>3, <2>4 DEF Handle
  <2> QED BY <1>1, <1>2, <2>2, <2>3, <2>4, <2>5
<1> QED BY <1>3, <1>4

\* What the builder has is in order.
Sound(x) == IsBuilder(x) /\ IsArena(x) /\ Frames(x, x.stack)

\* The text of a token is added at the end.
LEMMA TokenText ==
  ASSUME NEW x, NEW t, Sound(x), Len(x.stack) >= 1, IsSequence(t.text)
  PROVE  Sound(Token(x, t)) /\ StackText(Token(x, t)) = StackText(x) \o t.text
<1>1. PICK leaves, h : leaves = Intern(x.leaves, t) /\ h = Handle(leaves, t)
  OBVIOUS
<1>2. PICK stack : stack = Adopt(x.stack, Leaf(h))
  OBVIOUS
<1>3. PICK y : y = Token(x, t)
  OBVIOUS
<1>4. y.leaves = leaves /\ y.nodes = x.nodes /\ y.stack = stack
  <2>1. y = [x EXCEPT !.leaves = leaves, !.stack = stack]
    BY <1>1, <1>2, <1>3 DEF Token
  <2>2. y = [leaves |-> leaves, nodes |-> x.nodes, stack |-> stack]
    BY <2>1 DEF Sound, IsBuilder
  <2> QED BY <2>2
<1>5. /\ IsSequence(x.leaves) /\ IsSequence(x.nodes)
      /\ \A i \in DOMAIN x.leaves : IsSequence(x.leaves[i].text)
  BY DEF Sound, IsArena
<1>6. /\ IsSequence(leaves) /\ Len(x.leaves) <= Len(leaves) /\ \A i \in DOMAIN x.leaves : leaves[i] = x.leaves[i]
      /\ \A i \in DOMAIN leaves : i \in DOMAIN x.leaves \/ leaves[i] = t
      /\ h \in DOMAIN leaves /\ leaves[h] = t
  BY <1>1, <1>5, InternFacts
<1>7. \A i \in DOMAIN leaves : IsSequence(leaves[i].text)
  BY <1>5, <1>6
<1>8. \A i \in DOMAIN x.leaves : i \in DOMAIN leaves
  <2>1. /\ DOMAIN x.leaves = 1 .. Len(x.leaves) /\ DOMAIN leaves = 1 .. Len(leaves)
        /\ Len(x.leaves) \in Nat /\ Len(leaves) \in Nat
    BY <1>5, <1>6, SequenceFacts
  <2> QED BY <1>6, <2>1
<1>9. IsArena(y)
  <2>1. \A i \in DOMAIN x.nodes : ChildrenOf(x, x.nodes[i].children, i - 1)
    BY DEF Sound, IsArena
  <2>2. \A i \in DOMAIN x.nodes : ChildrenOf(y, x.nodes[i].children, i - 1)
    BY <1>4, <1>8, <2>1 DEF ChildrenOf, ChildOf
  <2> QED BY <1>4, <1>5, <1>6, <1>7, <2>2 DEF IsArena
<1>10. Extends(x, y)
  <2>1. Len(x.nodes) \in Nat
    BY <1>5, SequenceFacts
  <2> QED BY <1>4, <1>6, <2>1 DEF Extends
<1>11. Frames(y, x.stack) /\ Layout(y, x.stack) = Layout(x, x.stack)
  BY <1>9, <1>10, LayoutKeeps DEF Sound
<1>12. PICK c : c = Leaf(h) /\ ChildOf(y, c, Len(y.nodes)) /\ Piece(y, Texts(y), c) = t.text
  <2>1. ChildOf(y, Leaf(h), Len(y.nodes))
    BY <1>4, <1>6 DEF ChildOf, Leaf
  <2>2. Piece(y, Texts(y), Leaf(h)) = t.text
    BY <1>4, <1>6 DEF Piece, Leaf
  <2> QED BY <2>1, <2>2
<1>13. Frames(y, stack) /\ FlattenSeq(Layout(y, stack)) = FlattenSeq(Layout(y, x.stack)) \o Piece(y, Texts(y), c)
  <2>1. IsStack(x.stack)
    BY DEF Sound, IsBuilder
  <2>2. LET new == Adopt(x.stack, c)
        IN  /\ Frames(y, new)
            /\ FlattenSeq(Layout(y, new)) = FlattenSeq(Layout(y, x.stack)) \o Piece(y, Texts(y), c)
    BY <1>9, <1>11, <1>12, <2>1, AdoptText
  <2> QED BY <1>2, <1>12, <2>2
<1>14. StackText(y) = StackText(x) \o t.text
  BY <1>4, <1>11, <1>12, <1>13 DEF StackText
<1>15. IsBuilder(y)
  BY <1>3, TokenFacts DEF Sound
<1> QED BY <1>3, <1>4, <1>9, <1>13, <1>14, <1>15 DEF Sound

\* A node that is started has no text yet.
LEMMA StartNodeText ==
  ASSUME NEW x, NEW kind, Sound(x)
  PROVE  Sound(StartNode(x, kind)) /\ StackText(StartNode(x, kind)) = StackText(x)
<1>1. PICK y, f : y = StartNode(x, kind) /\ f = Frame(kind, <<>>)
  OBVIOUS
<1>2. y.leaves = x.leaves /\ y.nodes = x.nodes /\ y.stack = Append(x.stack, f)
  <2>1. y = [x EXCEPT !.stack = Append(x.stack, f)]
    BY <1>1 DEF StartNode
  <2>2. y = [leaves |-> x.leaves, nodes |-> x.nodes, stack |-> Append(x.stack, f)]
    BY <2>1 DEF Sound, IsBuilder
  <2> QED BY <2>2
<1>3. IsBuilder(y)
  BY <1>1, StartNodeFacts DEF Sound
<1>4. IsArena(y) /\ Extends(x, y)
  <2>1. Len(x.nodes) \in Nat /\ Len(x.leaves) \in Nat
    BY SequenceFacts DEF Sound, IsArena
  <2>2. IsArena(y)
    BY <1>2 DEF Sound, IsArena, ChildrenOf, ChildOf
  <2> QED BY <1>2, <2>1, <2>2 DEF Extends
<1>5. Frames(y, x.stack) /\ Layout(y, x.stack) = Layout(x, x.stack)
  BY <1>4, LayoutKeeps DEF Sound
<1>6. PICK stack : stack = y.stack
  OBVIOUS
<1>7. IsSequence(x.stack)
  BY DEF Sound, Frames
<1>8. /\ IsSequence(stack) /\ Len(stack) = Len(x.stack) + 1 /\ Len(x.stack) \in Nat
      /\ \A i \in 1 .. Len(x.stack) : stack[i] = x.stack[i]
      /\ stack[Len(x.stack) + 1] = f
      /\ stack = x.stack \o <<f>>
  BY <1>2, <1>6, <1>7, AppendFacts, AppendConcat, SequenceFacts
<1>9. EndsWith(stack, x.stack, f)
  BY <1>7, <1>8 DEF EndsWith
<1>10. f.children = <<>> /\ Children(y, <<>>) /\ ChildrenText(y, <<>>) = <<>>
  BY <1>1, <1>4, NoChildren DEF Frame
<1>11. Frames(y, stack)
  BY <1>5, <1>8, <1>9, <1>10, FramesEnd
<1>12. FlattenSeq(Layout(y, stack)) = FlattenSeq(Layout(y, x.stack)) \o <<>>
  <2>1. FlattenSeq(Layout(y, stack)) = FlattenSeq(Layout(y, x.stack)) \o ChildrenText(y, f.children)
    BY <1>4, <1>9, <1>11, LayoutEnd
  <2> QED BY <1>10, <2>1
<1>13. IsSequence(FlattenSeq(Layout(y, x.stack)))
  BY <1>4, <1>5, LayoutFacts
<1>14. FlattenSeq(Layout(y, stack)) = FlattenSeq(Layout(y, x.stack))
  BY <1>12, <1>13, ConcatEmpty
<1> QED BY <1>1, <1>3, <1>4, <1>5, <1>6, <1>11, <1>14 DEF Sound, StackText

\* The children of a node that is finished are its text.
LEMMA FinishNodeText ==
  ASSUME NEW x, Sound(x), Len(x.stack) >= 2
  PROVE  Sound(FinishNode(x)) /\ StackText(FinishNode(x)) = StackText(x)
<1>1. PICK n \in Nat : Len(x.stack) = n + 1 /\ n >= 1
  <2>1. Len(x.stack) \in Nat
    BY SequenceFacts DEF Sound, Frames
  <2>2. Len(x.stack) - 1 \in Nat /\ Len(x.stack) = Len(x.stack) - 1 + 1 /\ Len(x.stack) - 1 >= 1
    BY <2>1
  <2> QED BY <2>2
<1>2. PICK r, f : EndsWith(x.stack, r, f)
  <2>1. x.stack # <<>> /\ IsSequence(x.stack)
    BY EmptyIsSequence DEF Sound, Frames
  <2> QED BY <2>1, FrontAndLast
<1>3. IsSequence(r) /\ Len(r) = n /\ f = x.stack[Len(x.stack)] /\ \A i \in 1 .. n : r[i] = x.stack[i]
  BY <1>1, <1>2 DEF EndsWith
<1>4. r = Front(x.stack)
  <2>1. PICK s : s = Front(x.stack)
    OBVIOUS
  <2>2. s = SubSeq(x.stack, 1, n)
    BY <1>1, <2>1 DEF Front
  <2>3. n \in 0 .. Len(x.stack) /\ IsSequence(x.stack)
    BY <1>1 DEF Sound, Frames
  <2>4. IsSequence(s) /\ Len(s) = n /\ \A i \in 1 .. n : s[i] = x.stack[i]
    BY <2>2, <2>3, PrefixFacts
  <2> QED BY <1>3, <2>1, <2>4, SameSequence
<1>5. IsStack(r)
  <2>1. \A i \in 1 .. n : i \in 1 .. n + 1
    OBVIOUS
  <2>2. \A i \in 1 .. n + 1 : IsFrame(x.stack[i])
    BY <1>1 DEF Sound, IsBuilder, IsStack
  <2> QED BY <1>3, <2>1, <2>2 DEF IsStack
<1>6. PICK cs, node : /\ cs = f.children
                      /\ node = [kind |-> Top(x).kind, children |-> cs, width |-> TotalWidth(x, cs)]
  OBVIOUS
<1>7. PICK nodes, h : nodes = Intern(x.nodes, node) /\ h = Handle(nodes, node)
  OBVIOUS
<1>8. PICK stack, c : c = Inner(h) /\ stack = Adopt(r, c)
  OBVIOUS
<1>9. PICK y : y = FinishNode(x)
  OBVIOUS
<1>10. y.leaves = x.leaves /\ y.nodes = nodes /\ y.stack = stack
  <2>1. Top(x).children = cs
    BY <1>3, <1>6 DEF Top
  <2>2. y = [x EXCEPT !.nodes = nodes, !.stack = stack]
    BY <1>4, <1>6, <1>7, <1>8, <1>9, <2>1 DEF FinishNode
  <2>3. y = [leaves |-> x.leaves, nodes |-> nodes, stack |-> stack]
    BY <2>2 DEF Sound, IsBuilder
  <2> QED BY <2>3
<1>11. Frames(x, r) /\ Children(x, cs)
  BY <1>2, <1>6, FramesEnd DEF Sound, Frames
<1>12. /\ IsSequence(x.leaves) /\ IsSequence(x.nodes) /\ Len(x.nodes) \in Nat /\ Len(x.leaves) \in Nat
       /\ DOMAIN x.nodes = 1 .. Len(x.nodes)
  BY SequenceFacts DEF Sound, IsArena
<1>13. /\ IsSequence(nodes) /\ Len(x.nodes) <= Len(nodes) /\ \A i \in DOMAIN x.nodes : nodes[i] = x.nodes[i]
       /\ \A i \in DOMAIN nodes : i \in DOMAIN x.nodes \/ (i = Len(x.nodes) + 1 /\ nodes[i] = node)
       /\ h \in DOMAIN nodes /\ nodes[h] = node
  BY <1>7, <1>12, InternFacts
<1>14. IsArena(y)
  <2>1. \A i \in DOMAIN x.nodes : ChildrenOf(x, nodes[i].children, i - 1)
    BY <1>13 DEF Sound, IsArena
  <2>2. ChildrenOf(x, node.children, Len(x.nodes) + 1 - 1)
    <3>1. Len(x.nodes) + 1 - 1 = Len(x.nodes) /\ node.children = cs
      BY <1>6, <1>12
    <3> QED BY <1>11, <3>1 DEF Children
  <2>3. \A i \in DOMAIN nodes : ChildrenOf(x, nodes[i].children, i - 1)
    BY <1>13, <2>1, <2>2
  <2>4. \A i \in DOMAIN nodes : ChildrenOf(y, nodes[i].children, i - 1)
    BY <1>10, <2>3 DEF ChildrenOf, ChildOf
  <2> QED BY <1>10, <1>12, <1>13, <2>4 DEF Sound, IsArena
<1>15. Extends(x, y)
  BY <1>10, <1>12, <1>13 DEF Extends
<1>16. /\ Frames(y, r) /\ Layout(y, r) = Layout(x, r)
       /\ Children(y, cs) /\ ChildrenText(y, cs) = ChildrenText(x, cs)
  BY <1>11, <1>14, <1>15, LayoutKeeps, ChildrenKeep DEF Sound
<1>17. ChildOf(y, c, Len(y.nodes)) /\ Piece(y, Texts(y), c) = ChildrenText(x, cs)
  <2>1. DOMAIN nodes = 1 .. Len(nodes)
    BY <1>13, SequenceFacts
  <2>2. ChildOf(y, c, Len(y.nodes))
    BY <1>8, <1>10, <1>13, <2>1 DEF ChildOf, Inner
  <2>3. PICK g : g = Texts(y)
    OBVIOUS
  <2>4. IsText(y, g, Len(nodes))
    BY <1>10, <1>14, <2>3, TextsIs
  <2>5. g[h] = FlattenSeq(Pieces(y, g, nodes[h].children))
    BY <1>10, <1>13, <2>1, <2>4 DEF IsText
  <2>6. nodes[h].children = cs
    BY <1>6, <1>13
  <2>7. ChildrenText(y, cs) = FlattenSeq(Pieces(y, g, cs))
    BY <2>3, ChildrenTextIs
  <2>8. Piece(y, g, c) = g[h]
    BY <1>8 DEF Piece, Inner
  <2> QED BY <1>16, <2>2, <2>3, <2>5, <2>6, <2>7, <2>8
<1>18. Frames(y, stack) /\ FlattenSeq(Layout(y, stack)) = FlattenSeq(Layout(y, r)) \o Piece(y, Texts(y), c)
  <2>1. Len(r) >= 1
    BY <1>1, <1>3
  <2>2. LET new == Adopt(r, c)
        IN  /\ Frames(y, new)
            /\ FlattenSeq(Layout(y, new)) = FlattenSeq(Layout(y, r)) \o Piece(y, Texts(y), c)
    BY <1>5, <1>14, <1>16, <1>17, <2>1, AdoptText
  <2> QED BY <1>8, <2>2
<1>19. FlattenSeq(Layout(x, x.stack)) = FlattenSeq(Layout(x, r)) \o ChildrenText(x, cs)
  BY <1>2, <1>6, LayoutEnd DEF Sound
<1>20. StackText(y) = StackText(x)
  BY <1>10, <1>16, <1>17, <1>18, <1>19 DEF StackText
<1>21. IsBuilder(y)
  <2>1. PICK z : /\ z = FinishNode(x)
                 /\ \E i : LET m == Len(x.stack) - 1
                           IN  /\ IsBuilder(z) /\ Len(z.stack) = m
                               /\ \A j \in 1 .. m - 1 : z.stack[j] = x.stack[j]
                               /\ z.stack[m].children = Append(x.stack[m].children, Inner(i))
    BY FinishNodeFacts DEF Sound
  <2> QED BY <1>9, <2>1
<1> QED BY <1>9, <1>10, <1>14, <1>18, <1>20, <1>21 DEF Sound

\* A list is what comes first in it and what follows.
LEMMA SplitAt ==
  ASSUME NEW s, IsSequence(s), NEW n \in 0 .. Len(s)
  PROVE  /\ IsSequence(SubSeq(s, 1, n)) /\ IsSequence(SubSeq(s, n + 1, Len(s)))
         /\ s = SubSeq(s, 1, n) \o SubSeq(s, n + 1, Len(s))
<1>1. PICK k \in Nat : k = Len(s)
  BY SequenceFacts
<1>2. PICK p : p = SubSeq(s, 1, n) /\ IsSequence(p) /\ Len(p) = n /\ \A i \in 1 .. n : p[i] = s[i]
  BY ZenonT(40), PrefixFacts
<1>3. PICK m : m = n + 1 /\ m \in 1 .. k + 1 /\ k \in m - 1 .. k /\ k - m + 1 = k - n /\ m \in Nat
  BY <1>1
<1>4. PICK q : /\ q = SubSeq(s, m, k) /\ IsSequence(q) /\ Len(q) = k - n
               /\ \A i \in 1 .. k - n : q[i] = s[m + i - 1]
  <2>1. m \in 1 .. Len(s) + 1 /\ k \in m - 1 .. Len(s)
    BY <1>1, <1>3
  <2>2. /\ IsSequence(SubSeq(s, m, k)) /\ Len(SubSeq(s, m, k)) = k - m + 1
        /\ \A i \in 1 .. k - m + 1 : SubSeq(s, m, k)[i] = s[m + i - 1]
    BY <2>1, SubSeqFacts
  <2> QED BY <1>3, <2>2
<1>5. PICK t : t = p \o q
  OBVIOUS
<1>6. n \in Nat /\ n + (k - n) = k
  BY <1>1
<1>7. /\ IsSequence(t) /\ Len(t) = k
      /\ \A i \in 1 .. k : t[i] = IF i <= n THEN p[i] ELSE q[i - n]
  <2>1. /\ IsSequence(t) /\ Len(t) = Len(p) + Len(q)
        /\ \A i \in 1 .. Len(p) + Len(q) : t[i] = IF i <= Len(p) THEN p[i] ELSE q[i - Len(p)]
    <3>1. IsSequence(p) /\ IsSequence(q)
      BY <1>2, <1>4
    <3> QED BY <1>5, <3>1, ConcatFacts
  <2>2. Len(p) = n /\ Len(q) = k - n
    BY <1>2, <1>4
  <2> QED BY <1>6, <2>1, <2>2
<1>8. \A i \in 1 .. k : t[i] = s[i]
  <2> TAKE i \in 1 .. k
  <2>1. CASE i <= n
    BY <1>2, <1>6, <1>7, <2>1
  <2>2. CASE ~(i <= n)
    <3>1. i - n \in 1 .. k - n /\ m + (i - n) - 1 = i
      BY <1>3, <1>6, <2>2
    <3> QED BY <1>4, <1>7, <2>2, <3>1
  <2> QED BY <2>1, <2>2
<1>9. t = s
  BY <1>1, <1>7, <1>8, SameSequence
<1> QED BY <1>1, <1>2, <1>3, <1>4, <1>5, <1>9

\* The parts of children are children.
LEMMA ChildrenParts ==
  ASSUME NEW x, NEW n, NEW cs, NEW ds, IsSequence(cs), IsSequence(ds), ChildrenOf(x, cs \o ds, n)
  PROVE  ChildrenOf(x, cs, n) /\ ChildrenOf(x, ds, n)
<1>1. PICK k \in Nat, l \in Nat : k = Len(cs) /\ DOMAIN cs = 1 .. k /\ l = Len(ds) /\ DOMAIN ds = 1 .. l
  BY SequenceFacts
<1>2. PICK es : es = cs \o ds
  OBVIOUS
<1>3. /\ IsSequence(es) /\ Len(es) = k + l
      /\ \A i \in 1 .. k + l : es[i] = IF i <= k THEN cs[i] ELSE ds[i - k]
  BY <1>1, <1>2, ConcatFacts
<1>4. \A i \in 1 .. k + l : ChildOf(x, es[i], n)
  BY <1>2, <1>3, SequenceFacts DEF ChildrenOf
<1>5. \A i \in 1 .. k : ChildOf(x, cs[i], n)
  <2> TAKE i \in 1 .. k
  <2>1. i \in 1 .. k + l /\ i <= k
    OBVIOUS
  <2> QED BY <1>3, <1>4, <2>1
<1>6. \A i \in 1 .. l : ChildOf(x, ds[i], n)
  <2> TAKE i \in 1 .. l
  <2>1. PICK j : j = k + i /\ j \in 1 .. k + l /\ ~(j <= k) /\ j - k = i
    OBVIOUS
  <2>2. es[j] = ds[i]
    BY <1>3, <2>1
  <2> QED BY <1>4, <2>1, <2>2
<1> QED BY <1>1, <1>5, <1>6 DEF ChildrenOf

\* A builder with the arenas of another one.
LEMMA SameArena ==
  ASSUME NEW x, NEW y, IsArena(x), y.leaves = x.leaves, y.nodes = x.nodes
  PROVE  IsArena(y) /\ Extends(x, y)
<1>1. Len(x.nodes) \in Nat /\ Len(x.leaves) \in Nat
  BY SequenceFacts DEF IsArena
<1>2. IsArena(y)
  BY DEF IsArena, ChildrenOf, ChildOf
<1> QED BY <1>1, <1>2 DEF Extends

\* What is taken over stays where it is.
LEMMA StartNodeAtText ==
  ASSUME NEW x, Sound(x), NEW d \in Nat, d = Len(x.stack), d >= 1,
         NEW cp, NEW kind, cp.n \in 0 .. Len(x.stack[d].children)
  PROVE  LET y == StartNodeAt(x, cp, kind)
         IN  Sound(y) /\ StackText(y) = StackText(x) /\ Len(y.stack) = d + 1
<1>1. PICK y, n, cs : y = StartNodeAt(x, cp, kind) /\ n = cp.n /\ cs = x.stack[d].children
  OBVIOUS
<1>2. TakesOver(x, y, d, cs, n)
  BY <1>1, StartNodeAtFacts DEF Sound
<1>3. /\ IsBuilder(y) /\ y.leaves = x.leaves /\ y.nodes = x.nodes /\ Len(y.stack) = d + 1
      /\ \A i \in 1 .. d - 1 : y.stack[i] = x.stack[i]
  BY <1>2 DEF TakesOver
<1>4. PICK kept, taken : /\ kept = SubSeq(cs, 1, n) /\ y.stack[d].children = kept
                         /\ taken = SubSeq(cs, n + 1, Len(cs)) /\ y.stack[d + 1].children = taken
  BY <1>2 DEF TakesOver
<1>5. PICK r, f : EndsWith(x.stack, r, f)
  <2>1. x.stack # <<>> /\ IsSequence(x.stack)
    BY EmptyIsSequence DEF Sound, Frames
  <2> QED BY <2>1, FrontAndLast
<1>6. PICK m \in Nat : d = m + 1 /\ d - 1 = m
  <2>1. d - 1 \in Nat /\ d = d - 1 + 1
    OBVIOUS
  <2> QED BY <2>1
<1>7. IsSequence(r) /\ Len(r) = m /\ f = x.stack[d] /\ \A i \in 1 .. m : r[i] = x.stack[i]
  BY <1>5, <1>6 DEF EndsWith
<1>8. IsSequence(y.stack)
  BY <1>3 DEF IsBuilder, IsStack
<1>9. PICK q, g : EndsWith(y.stack, q, g)
  <2>1. y.stack # <<>>
    BY <1>3, EmptyIsSequence
  <2> QED BY <1>8, <2>1, FrontAndLast
<1>10. IsSequence(q) /\ Len(q) = d /\ g = y.stack[d + 1] /\ \A i \in 1 .. d : q[i] = y.stack[i]
  BY <1>3, <1>9 DEF EndsWith
<1>11. PICK p, e : EndsWith(q, p, e)
  <2>1. q # <<>>
    BY <1>10, EmptyIsSequence
  <2> QED BY <1>10, <2>1, FrontAndLast
<1>12. IsSequence(p) /\ Len(p) = m /\ e = q[d] /\ \A i \in 1 .. m : p[i] = q[i]
  BY <1>6, <1>10, <1>11 DEF EndsWith
<1>13. p = r
  <2>1. \A i \in 1 .. m : i \in 1 .. d
    BY <1>6
  <2>2. \A i \in 1 .. m : p[i] = r[i]
    BY <1>3, <1>6, <1>7, <1>10, <1>12, <2>1
  <2> QED BY <1>7, <1>12, <2>2, SameSequence
<1>14. e.children = kept /\ g.children = taken /\ f.children = cs
  <2>1. d \in 1 .. d
    OBVIOUS
  <2> QED BY <1>1, <1>4, <1>7, <1>10, <1>12, <2>1
<1>15. Frames(x, r) /\ Children(x, cs)
  BY <1>5, <1>14, FramesEnd DEF Sound, Frames
<1>16. IsSequence(kept) /\ IsSequence(taken) /\ cs = kept \o taken
  <2>1. IsSequence(cs) /\ n \in 0 .. Len(cs)
    BY <1>1, <1>15 DEF Children, ChildrenOf
  <2> QED BY <1>4, <2>1, SplitAt
<1>17. Children(x, kept) /\ Children(x, taken)
  BY <1>15, <1>16, ChildrenParts DEF Children
<1>18. ChildrenText(x, cs) = ChildrenText(x, kept) \o ChildrenText(x, taken)
  BY <1>16, <1>17, ChildrenTextConcat DEF Sound
<1>19. IsArena(y) /\ Extends(x, y)
  BY <1>3, SameArena DEF Sound
<1>20. /\ Frames(y, r) /\ Layout(y, r) = Layout(x, r)
       /\ Children(y, kept) /\ ChildrenText(y, kept) = ChildrenText(x, kept)
       /\ Children(y, taken) /\ ChildrenText(y, taken) = ChildrenText(x, taken)
  BY <1>15, <1>17, <1>19, LayoutKeeps, ChildrenKeep DEF Sound
<1>21. Frames(y, q)
  BY <1>10, <1>11, <1>13, <1>14, <1>20, FramesEnd
<1>22. Frames(y, y.stack)
  BY <1>8, <1>9, <1>14, <1>20, <1>21, FramesEnd
<1>23. PICK F, G, H : F = FlattenSeq(Layout(x, r)) /\ G = ChildrenText(x, kept) /\ H = ChildrenText(x, taken)
  OBVIOUS
<1>24. IsSequence(F) /\ IsSequence(G) /\ IsSequence(H)
  BY <1>15, <1>17, <1>23, LayoutFacts, ChildrenTextSequence DEF Sound
<1>25. FlattenSeq(Layout(y, q)) = F \o G
  <2>1. FlattenSeq(Layout(y, q)) = FlattenSeq(Layout(y, r)) \o ChildrenText(y, e.children)
    BY <1>11, <1>13, <1>19, <1>21, LayoutEnd
  <2> QED BY <1>14, <1>20, <1>23, <2>1
<1>26. StackText(y) = (F \o G) \o H
  <2>1. FlattenSeq(Layout(y, y.stack)) = FlattenSeq(Layout(y, q)) \o ChildrenText(y, g.children)
    BY <1>9, <1>19, <1>22, LayoutEnd
  <2> QED BY <1>14, <1>20, <1>23, <1>25, <2>1 DEF StackText
<1>27. StackText(x) = F \o (G \o H)
  <2>1. FlattenSeq(Layout(x, x.stack)) = FlattenSeq(Layout(x, r)) \o ChildrenText(x, f.children)
    BY <1>5, LayoutEnd DEF Sound
  <2> QED BY <1>14, <1>18, <1>23, <2>1 DEF StackText
<1>28. (F \o G) \o H = F \o (G \o H)
  BY <1>24, ConcatAssociates, SMTT(30)
<1> QED BY <1>1, <1>3, <1>19, <1>22, <1>26, <1>27, <1>28 DEF Sound
-----------------------------------------------------------------------------
(***************************************************************************)
(* The texts of tokens.                                                    *)
(***************************************************************************)
AreTokens(ts) == IsSequence(ts) /\ \A i \in DOMAIN ts : IsSequence(ts[i].text)

\* One more token adds its text.
LEMMA TextOfAppend ==
  ASSUME NEW ts, NEW t, IsSequence(ts), IsSequence(t.text)
  PROVE  TextOf(Append(ts, t)) = TextOf(ts) \o t.text
<1>1. PICK n \in Nat : n = Len(ts) /\ DOMAIN ts = 1 .. n
  BY SequenceFacts
<1>2. PICK us : us = Append(ts, t)
  OBVIOUS
<1>3. /\ IsSequence(us) /\ Len(us) = n + 1 /\ \A i \in 1 .. n : us[i] = ts[i]
      /\ us[n + 1] = t
  BY <1>1, <1>2, AppendFacts
<1>4. DOMAIN us = 1 .. n + 1
  BY <1>3, SequenceFacts
<1>5. PICK p, q : p = [i \in 1 .. n |-> ts[i].text] /\ q = [i \in 1 .. n + 1 |-> us[i].text]
  OBVIOUS
<1>6. IsSequence(p) /\ Len(p) = n /\ \A i \in 1 .. n : p[i] = ts[i].text
  <2>1. p = [i \in 1 .. n |-> p[i]]
    BY <1>5
  <2> QED BY <1>5, <2>1, SequenceOf
<1>7. IsSequence(q) /\ Len(q) = n + 1 /\ \A i \in 1 .. n + 1 : q[i] = us[i].text
  <2>1. PICK m \in Nat : m = n + 1
    OBVIOUS
  <2>2. q = [i \in 1 .. m |-> q[i]] /\ \A i \in 1 .. m : q[i] = us[i].text
    BY <1>5, <2>1
  <2>3. IsSequence(q) /\ Len(q) = m
    BY <2>2, SequenceOf
  <2> QED BY <2>1, <2>2, <2>3
<1>8. PICK r : r = Append(p, t.text)
  OBVIOUS
<1>9. /\ IsSequence(r) /\ Len(r) = n + 1 /\ \A i \in 1 .. n : r[i] = p[i]
      /\ r[n + 1] = t.text
  BY <1>6, <1>8, AppendFacts
<1>10. \A i \in 1 .. n + 1 : r[i] = q[i]
  <2>1. \A i \in 1 .. n + 1 : i \in 1 .. n \/ i = n + 1
    OBVIOUS
  <2>2. (\A i \in 1 .. n : i \in 1 .. n + 1) /\ n + 1 \in 1 .. n + 1
    OBVIOUS
  <2>3. \A i \in 1 .. n : r[i] = q[i]
    BY <1>3, <1>6, <1>7, <1>9, <2>2
  <2>4. r[n + 1] = q[n + 1]
    BY <1>3, <1>7, <1>9, <2>2
  <2> QED BY <2>1, <2>3, <2>4
<1>11. r = q
  BY <1>7, <1>9, <1>10, SameSequence
<1>12. r = p \o <<t.text>>
  BY <1>6, <1>8, AppendConcat
<1>13. FlattenSeq(p \o <<t.text>>) = FlattenSeq(p) \o t.text
  BY <1>6, FlattenAppend
<1>14. TextOf(ts) = FlattenSeq(p) /\ TextOf(us) = FlattenSeq(q)
  BY <1>1, <1>4, <1>5 DEF TextOf
<1> QED BY <1>2, <1>11, <1>12, <1>13, <1>14

\* It is a sequence.
LEMMA TextOfSequence ==
  ASSUME NEW ts, AreTokens(ts)
  PROVE  IsSequence(TextOf(ts))
<1>1. PICK n \in Nat : n = Len(ts) /\ DOMAIN ts = 1 .. n
  BY SequenceFacts DEF AreTokens
<1>2. PICK p : p = [i \in 1 .. n |-> ts[i].text]
  OBVIOUS
<1>3. IsSequence(p) /\ Len(p) = n /\ \A i \in 1 .. n : p[i] = ts[i].text
  <2>1. p = [i \in 1 .. n |-> p[i]]
    BY <1>2
  <2> QED BY <1>2, <2>1, SequenceOf
<1>4. \A i \in DOMAIN p : IsSequence(p[i])
  BY <1>1, <1>3, SequenceFacts DEF AreTokens
<1>5. IsSequence(FlattenSeq(p))
  BY <1>3, <1>4, FlattenIsSequence
<1> QED BY <1>1, <1>2, <1>5 DEF TextOf

\* A beginning that is one token longer.
LEMMA NextPrefix ==
  ASSUME NEW ts, AreTokens(ts), NEW k \in Nat, k + 1 <= Len(ts)
  PROVE  /\ TextOf(SubSeq(ts, 1, k + 1)) = TextOf(SubSeq(ts, 1, k)) \o ts[k + 1].text
         /\ IsSequence(ts[k + 1].text)
<1>1. PICK l \in Nat : l = Len(ts) /\ DOMAIN ts = 1 .. l /\ IsSequence(ts)
  BY SequenceFacts DEF AreTokens
<1>2. PICK m \in Nat : m = k + 1 /\ m \in 1 .. l /\ m \in 0 .. l /\ k \in 0 .. l
  BY <1>1
<1>3. PICK p : p = SubSeq(ts, 1, k) /\ IsSequence(p) /\ Len(p) = k /\ \A i \in 1 .. k : p[i] = ts[i]
  BY ZenonT(40), <1>1, <1>2, PrefixFacts
<1>4. PICK q : q = SubSeq(ts, 1, m) /\ IsSequence(q) /\ Len(q) = m /\ \A i \in 1 .. m : q[i] = ts[i]
  <2>1. m \in 0 .. Len(ts) /\ IsSequence(ts)
    BY <1>1, <1>2
  <2> QED BY ZenonT(40), <2>1, PrefixFacts
<1>5. PICK r : r = Append(p, ts[m])
  OBVIOUS
<1>6. /\ IsSequence(r) /\ Len(r) = m /\ \A i \in 1 .. k : r[i] = p[i]
      /\ r[m] = ts[m]
  BY <1>2, <1>3, <1>5, AppendFacts
<1>7. \A i \in 1 .. m : r[i] = q[i]
  <2>1. \A i \in 1 .. m : i \in 1 .. k \/ i = m
    BY <1>2
  <2> QED BY <1>2, <1>3, <1>4, <1>6, <2>1
<1>8. r = q
  BY <1>4, <1>6, <1>7, SameSequence
<1>9. IsSequence(ts[m].text)
  BY <1>1, <1>2 DEF AreTokens
<1>10. TextOf(Append(p, ts[m])) = TextOf(p) \o ts[m].text
  BY <1>3, <1>9, TextOfAppend
<1> QED BY <1>2, <1>3, <1>4, <1>5, <1>8, <1>9, <1>10

\* What is emitted is told.
LEMMA EmitText ==
  ASSUME NEW ts, AreTokens(ts), NEW p \in 1 .. Len(ts) + 1, NEW n \in p - 1 .. Len(ts),
         NEW x, Sound(x), Len(x.stack) >= 1, StackText(x) = TextOf(SubSeq(ts, 1, p - 1))
  PROVE  LET y == Emitted(x, SubSeq(ts, p, n))
         IN  Sound(y) /\ StackText(y) = TextOf(SubSeq(ts, 1, n))
<1>1. PICK k \in Nat : k = Len(ts) /\ DOMAIN ts = 1 .. k /\ IsSequence(ts)
  BY SequenceFacts DEF AreTokens
<1>2. PICK o \in Nat, l \in Nat : p = o + 1 /\ p - 1 = o /\ l = n - p + 1 /\ n = o + l /\ n <= k /\ n \in Nat
  <2>1. p - 1 \in Nat /\ p = p - 1 + 1 /\ n - p + 1 \in Nat /\ n = p - 1 + (n - p + 1) /\ n <= k /\ n \in Nat
    BY <1>1
  <2> QED BY <2>1
<1>3. PICK s : /\ s = SubSeq(ts, p, n) /\ IsSequence(s) /\ Len(s) = l
               /\ \A i \in 1 .. l : s[i] = ts[p + i - 1]
  <2>1. /\ IsSequence(SubSeq(ts, p, n)) /\ Len(SubSeq(ts, p, n)) = n - p + 1
        /\ \A i \in 1 .. n - p + 1 : SubSeq(ts, p, n)[i] = ts[p + i - 1]
    BY <1>1, SubSeqFacts
  <2> QED BY <1>2, <2>1
<1>4. PICK f : f[0] = x /\ (\A i \in 1 .. l : f[i] = Token(f[i - 1], s[i])) /\ Emitted(x, s) = f[l]
  <2>1. IsSequence(s)
    BY <1>3
  <2>2. PICK f : /\ f[0] = x /\ \A i \in 1 .. Len(s) : f[i] = Token(f[i - 1], s[i])
                 /\ Emitted(x, s) = f[Len(s)]
    BY <2>1, FoldIsIteration
  <2>3. Len(s) = l
    BY <1>3
  <2> QED BY <2>2, <2>3
<1> DEFINE Good(i) == Sound(f[i]) /\ Len(f[i].stack) >= 1 /\ StackText(f[i]) = TextOf(SubSeq(ts, 1, o + i))
           T == {i \in 0 .. l : ~Good(i)}
<1>5. Good(0)
  <2>1. o + 0 = o
    OBVIOUS
  <2> QED BY <1>2, <1>4, <2>1
<1>6. T = {}
  <2> SUFFICES ASSUME T # {}
               PROVE  FALSE
    OBVIOUS
  <2>1. T \in SUBSET Nat
    OBVIOUS
  <2>2. PICK i \in T : \A j \in T : i <= j
    BY <2>1, LeastElement
  <2>3. i # 0
    BY <1>5
  <2>4. PICK j \in Nat : i = j + 1 /\ j = i - 1 /\ i \in 1 .. l /\ j \in 0 .. l /\ ~(i <= j)
    <3>1. i \in 0 .. l
      OBVIOUS
    <3>2. i - 1 \in Nat /\ i = i - 1 + 1 /\ i \in 1 .. l /\ i - 1 \in 0 .. l /\ ~(i <= i - 1)
      BY <2>3, <3>1
    <3> QED BY <3>2
  <2>5. Good(j)
    BY <2>2, <2>4
  <2>6. ~Good(i)
    OBVIOUS
  <2>7. PICK y : y = f[j] /\ Sound(y) /\ Len(y.stack) >= 1 /\ StackText(y) = TextOf(SubSeq(ts, 1, o + j))
    BY <2>5
  <2> HIDE DEF T
  <2>8. PICK m \in Nat : m = o + j /\ m + 1 <= k /\ p + i - 1 = m + 1 /\ o + i = m + 1
    BY <1>2, <2>4
  <2>9. PICK t : t = ts[m + 1] /\ s[i] = t
    BY <1>3, <2>4, <2>8
  <2>10. IsSequence(t.text) /\ TextOf(SubSeq(ts, 1, m + 1)) = TextOf(SubSeq(ts, 1, m)) \o t.text
    BY <1>1, <2>8, <2>9, NextPrefix
  <2>11. f[i] = Token(y, t)
    BY <1>4, <2>4, <2>7, <2>9
  <2>12. Sound(Token(y, t)) /\ StackText(Token(y, t)) = StackText(y) \o t.text
    BY <2>7, <2>10, TokenText
  <2>13. Len(Token(y, t).stack) >= 1
    <3>1. Grows(y.stack, Token(y, t).stack)
      BY <2>7, TokenFacts DEF Sound
    <3> QED BY <2>7, <3>1 DEF Grows
  <2>14. StackText(f[i]) = TextOf(SubSeq(ts, 1, o + i))
    BY <2>7, <2>8, <2>10, <2>11, <2>12
  <2> QED BY <2>6, <2>11, <2>12, <2>13, <2>14
<1>7. Good(l)
  <2>1. l \in 0 .. l
    OBVIOUS
  <2> QED BY <1>6, <2>1
<1> QED BY <1>2, <1>3, <1>4, <1>7
-----------------------------------------------------------------------------
(***************************************************************************)
(* The lexer: the token at the head of what is left takes at least one     *)
(* character, and no more than there are.                                  *)
(***************************************************************************)
IsRest(s) == IsSequence(s) /\ s # <<>> /\ {"", "EOF"} \cap ToSet(s) = {}

\* The characters of a text.
LEMMA TextFacts ==
  ASSUME NEW s, IsRest(s)
  PROVE  /\ IsSequence(s) /\ Len(s) \in Nat /\ Len(s) >= 1 /\ DOMAIN s = 1 .. Len(s)
         /\ \A i \in 1 .. Len(s) : s[i] \notin {"", "EOF"} /\ CharAt(s, i) = s[i]
         /\ \A i : CharAt(s, i) # "" => i \in 1 .. Len(s) /\ CharAt(s, i) = s[i]
<1>1. IsSequence(s) /\ Len(s) \in Nat /\ DOMAIN s = 1 .. Len(s)
  BY SequenceFacts DEF IsRest
<1>2. Len(s) >= 1
  <2>1. Len(s) # 0
    BY OnlyEmpty DEF IsRest
  <2> QED BY <1>1, <2>1
<1>3. \A i \in 1 .. Len(s) : s[i] \notin {"", "EOF"}
  BY <1>1 DEF IsRest, ToSet
<1> QED BY <1>1, <1>2, <1>3 DEF CharAt

\* A run ends in the text, and not before its first character.
LEMMA EndOfRunFacts ==
  ASSUME NEW s, NEW k \in Nat, k = Len(s), NEW i \in 1 .. k + 1, NEW C
  PROVE  /\ EndOfRun(s, i, C) \in i - 1 .. k
         /\ i <= k /\ s[i] \in C => EndOfRun(s, i, C) \in i .. k
<1>1. PICK S : S = {j \in i .. k : s[j] \notin C} \cup {k + 1}
  OBVIOUS
<1>2. S \in SUBSET Nat /\ k + 1 \in S /\ \A j \in S : j >= i /\ j <= k + 1
  BY <1>1
<1>3. PICK m \in Nat : m = Min(S) /\ m \in S
  BY <1>2, LeastIs
<1>4. EndOfRun(s, i, C) = m - 1
  BY <1>1, <1>3 DEF EndOfRun
<1>5. m >= i /\ m <= k + 1
  BY <1>2, <1>3
<1>6. i <= k /\ s[i] \in C => m # i
  BY <1>1, <1>3
<1>7. m - 1 \in i - 1 .. k /\ (m # i => m - 1 \in i .. k)
  BY <1>5
<1> QED BY <1>4, <1>6, <1>7

\* The same for the words that end where something is found.
LEMMA EndBefore ==
  ASSUME NEW k \in Nat, k >= 1, NEW S \in SUBSET (1 .. k), 1 \notin S
  PROVE  Min(S \cup {k + 1}) - 1 \in 1 .. k
<1>1. PICK R : R = S \cup {k + 1}
  OBVIOUS
<1>2. R \in SUBSET Nat /\ k + 1 \in R /\ \A j \in R : j >= 2 /\ j <= k + 1
  <2>1. \A j \in S : j \in 1 .. k /\ j # 1
    OBVIOUS
  <2> QED BY <1>1, <2>1
<1>3. PICK m \in Nat : m = Min(R) /\ m \in R
  BY <1>2, LeastIs
<1>4. m >= 2 /\ m <= k + 1
  BY <1>2, <1>3
<1>5. m - 1 \in 1 .. k
  BY <1>4
<1> QED BY <1>1, <1>3, <1>5

\* A comment ends in the text.
LEMMA EndOfCommentFacts ==
  ASSUME NEW s, NEW k \in Nat, k = Len(s), k >= 1
  PROVE  EndOfComment(s) \in 1 .. k
<1>1. PICK S : S = {j \in 4 .. k : s[j - 1] = "*" /\ s[j] = "/"} \cup {k}
  OBVIOUS
<1>2. S \in SUBSET Nat /\ k \in S /\ \A j \in S : j >= 1 /\ j <= k
  BY <1>1
<1>3. PICK m \in Nat : m = Min(S) /\ m \in S
  BY <1>2, LeastIs
<1>4. m \in 1 .. k
  BY <1>2, <1>3
<1> QED BY <1>1, <1>3, <1>4 DEF EndOfComment

\* The recursive function of EndOfQuoted, from j on.
Quoted(s, e, i) ==
  CASE i > Len(s) -> Len(s)
    [] CharAt(s, i) = Escape -> e[i + 2]
    [] CharAt(s, i) = s[1] -> i
    [] CharAt(s, i) \in Breaks -> i - 1
    [] OTHER -> e[i + 1]
IsQuoted(s, e, j) == e = [i \in j .. Len(s) + 2 |-> Quoted(s, e, i)]

\* At the end it is the end.
LEMMA QuotedAtEnd ==
  ASSUME NEW s, IsRest(s), NEW e, NEW i \in Nat, i > Len(s)
  PROVE  Quoted(s, e, i) = Len(s)
<1>1. i \notin 1 .. Len(s) /\ 1 \in 1 .. Len(s)
  <2>1. Len(s) \in Nat /\ Len(s) >= 1
    BY TextFacts
  <2> QED BY <2>1
<1>2. CharAt(s, i) = ""
  <2>1. DOMAIN s = 1 .. Len(s)
    BY TextFacts
  <2> QED BY <1>1, <2>1 DEF CharAt
<1>3. s[1] # ""
  <2>1. s[1] \notin {"", "EOF"}
    BY <1>1, TextFacts
  <2> QED BY <2>1
<1>4. CharAt(s, i) # Escape /\ CharAt(s, i) # s[1] /\ CharAt(s, i) \notin Breaks
  BY <1>2, <1>3 DEF Escape, Breaks
<1> QED BY <1>4 DEF Quoted

\* It depends on what follows.
LEMMA QuotedAgree ==
  ASSUME NEW s, IsRest(s), NEW e, NEW g, NEW i \in Nat,
         i <= Len(s) => e[i + 1] = g[i + 1] /\ e[i + 2] = g[i + 2]
  PROVE  Quoted(s, e, i) = Quoted(s, g, i)
<1>9. Len(s) \in Nat
  BY TextFacts
<1>1. CASE i > Len(s)
  BY <1>1, QuotedAtEnd
<1>2. CASE ~(i > Len(s))
  <2>1. e[i + 1] = g[i + 1] /\ e[i + 2] = g[i + 2]
    BY <1>9, <1>2
  <2> QED BY <2>1 DEF Quoted
<1> QED BY <1>1, <1>2

\* It exists.
LEMMA QuotedExists ==
  ASSUME NEW s, IsRest(s), NEW k \in Nat, k = Len(s)
  PROVE  \A n \in 0 .. k : \E e : IsQuoted(s, e, k + 2 - n)
<1> DEFINE T == {n \in 0 .. k : ~\E e : IsQuoted(s, e, k + 2 - n)}
<1> SUFFICES ASSUME T # {}
             PROVE  FALSE
  OBVIOUS
<1>1. T \in SUBSET Nat
  OBVIOUS
<1>2. PICK m \in T : \A n \in T : m <= n
  BY <1>1, LeastElement
<1>3. m \in 0 .. k /\ ~\E e : IsQuoted(s, e, k + 2 - m)
  OBVIOUS
<1>4. CASE m = 0
  <2> DEFINE e == [i \in k + 2 .. k + 2 |-> k]
  <2>1. \A i \in k + 2 .. k + 2 : Quoted(s, e, i) = k
    <3> TAKE i \in k + 2 .. k + 2
    <3>1. i \in Nat /\ i > Len(s)
      OBVIOUS
    <3> QED BY <3>1, QuotedAtEnd
  <2>2. IsQuoted(s, e, k + 2)
    BY <2>1 DEF IsQuoted
  <2>3. k + 2 - 0 = k + 2
    OBVIOUS
  <2> QED BY <1>3, <1>4, <2>2, <2>3
<1>5. CASE m # 0
  <2>1. m - 1 \in 0 .. k /\ ~(m <= m - 1)
    BY <1>3, <1>5
  <2>2. m - 1 \notin T
    BY <1>2, <2>1
  <2>3. PICK j \in Nat : j = k + 2 - m /\ k + 2 - (m - 1) = j + 1 /\ j <= k + 1
    BY <1>3, <1>5
  <2>4. PICK g : IsQuoted(s, g, j + 1)
    BY <2>1, <2>2, <2>3
  <2> HIDE DEF T
  <2> DEFINE e == [i \in j .. k + 2 |-> IF i = j THEN Quoted(s, g, j) ELSE g[i]]
  <2>5. \A i \in j .. k + 2 : i \in Nat /\ (i = j \/ (i \in j + 1 .. k + 2 /\ i # j))
    BY <2>3
  <2>6. \A i \in j + 1 .. k + 2 : i \in j .. k + 2 /\ i # j
    BY <2>3
  <2>7. \A i \in j + 1 .. k + 2 : e[i] = g[i] /\ g[i] = Quoted(s, g, i)
    BY <2>4, <2>6 DEF IsQuoted
  <2>8. e[j] = Quoted(s, g, j) /\ e = [i \in j .. k + 2 |-> e[i]]
    BY <2>3
  <2> HIDE DEF e
  <2>9. \A i \in j .. k + 2 : Quoted(s, g, i) = Quoted(s, e, i)
    <3> TAKE i \in j .. k + 2
    <3>1. ASSUME i <= Len(s)
          PROVE  g[i + 1] = e[i + 1] /\ g[i + 2] = e[i + 2]
      <4>1. i + 1 \in j + 1 .. k + 2 /\ i + 2 \in j + 1 .. k + 2
        BY <2>3, <3>1
      <4> QED BY <2>7, <4>1
    <3> QED BY <2>5, <3>1, QuotedAgree
  <2>10. \A i \in j .. k + 2 : e[i] = Quoted(s, e, i)
    BY <2>5, <2>7, <2>8, <2>9
  <2>11. IsQuoted(s, e, j)
    BY <2>8, <2>10 DEF IsQuoted
  <2> QED BY <1>3, <2>3, <2>11
<1> QED BY <1>4, <1>5

\* What is quoted ends in the text.
LEMMA EndOfQuotedFacts ==
  ASSUME NEW s, IsRest(s), NEW k \in Nat, k = Len(s), k >= 1
  PROVE  EndOfQuoted(s) \in 1 .. k
<1>1. PICK e : e = CHOOSE f : IsQuoted(s, f, 2)
  OBVIOUS
<1>2. IsQuoted(s, e, 2)
  <2>1. k \in 0 .. k /\ k + 2 - k = 2
    OBVIOUS
  <2>2. \E f : IsQuoted(s, f, 2)
    BY <2>1, QuotedExists
  <2> QED BY <1>1, <2>2
<1>3. EndOfQuoted(s) = e[2]
  BY <1>1 DEF EndOfQuoted, IsQuoted, Quoted
<1> DEFINE T == {n \in 0 .. k : e[k + 2 - n] \notin 1 .. k}
<1>4. T = {}
  <2> SUFFICES ASSUME T # {}
               PROVE  FALSE
    OBVIOUS
  <2>1. T \in SUBSET Nat
    OBVIOUS
  <2>2. PICK m \in T : \A n \in T : m <= n
    BY <2>1, LeastElement
  <2>3. PICK i \in Nat : i = k + 2 - m /\ i \in 2 .. k + 2 /\ e[i] \notin 1 .. k /\ m = k + 2 - i
    <3>1. m \in 0 .. k /\ e[k + 2 - m] \notin 1 .. k
      OBVIOUS
    <3>2. k + 2 - m \in Nat /\ k + 2 - m \in 2 .. k + 2 /\ m = k + 2 - (k + 2 - m)
      BY <3>1
    <3> QED BY <3>1, <3>2
  <2>4. ASSUME NEW j \in i + 1 .. k + 2
        PROVE  e[j] \in 1 .. k
    <3>1. PICK n : n = k + 2 - j /\ n \in 0 .. k /\ ~(m <= n) /\ k + 2 - n = j
      BY SMTT(20), <2>3
    <3>2. n \notin T
      BY <2>2, <3>1
    <3> QED BY <3>1, <3>2
  <2> HIDE DEF T
  <2>5. e[i] = Quoted(s, e, i)
    BY <1>2, <2>3 DEF IsQuoted
  <2>6. Quoted(s, e, i) \in 1 .. k
    <3>1. CASE i > k
      <4>1. Quoted(s, e, i) = k
        BY <2>3, <3>1, QuotedAtEnd
      <4> QED BY <4>1
    <3>2. CASE ~(i > k)
      <4>1. i + 1 \in i + 1 .. k + 2 /\ i + 2 \in i + 1 .. k + 2 /\ i \in 1 .. k /\ i - 1 \in 1 .. k
        BY <2>3, <3>2
      <4>2. e[i + 1] \in 1 .. k /\ e[i + 2] \in 1 .. k
        BY <2>4, <4>1
      <4>3. Quoted(s, e, i) \in {e[i + 2], i, i - 1, e[i + 1]}
        BY <3>2 DEF Quoted
      <4> QED BY <4>1, <4>2, <4>3
    <3> QED BY <3>1, <3>2
  <2> QED BY <2>3, <2>5, <2>6
<1>5. k \in 0 .. k /\ k + 2 - k = 2
  OBVIOUS
<1>6. e[2] \in 1 .. k
  BY <1>4, <1>5
<1> QED BY <1>3, <1>6

\* A number ends in the text.
LEMMA NumberFacts ==
  ASSUME NEW s, IsRest(s), s[1] \in Digits
  PROVE  Number(s).end \in 1 .. Len(s) /\ Number(s).kind # "EOF"
<1>1. PICK k \in Nat : k = Len(s) /\ k >= 1
  BY TextFacts
<1>2. \A i : CharAt(s, i) \in Digits => i \in 1 .. k /\ CharAt(s, i) = s[i]
  BY <1>1, TextFacts DEF Digits
<1>3. PICK int : int = EndOfRun(s, 1, Digits) /\ int \in 1 .. k
  <2>1. 1 \in 1 .. k + 1 /\ 1 <= k
    BY <1>1
  <2> QED BY <1>1, <2>1, EndOfRunFacts
<1>4. \A i \in 1 .. k : CharAt(s, i) \in Digits => EndOfRun(s, i, Digits) \in 1 .. k
  <2> SUFFICES ASSUME NEW i \in 1 .. k, CharAt(s, i) \in Digits
               PROVE  EndOfRun(s, i, Digits) \in 1 .. k
    OBVIOUS
  <2>1. i \in 1 .. k + 1 /\ i <= k /\ s[i] \in Digits
    BY <1>2
  <2>2. EndOfRun(s, i, Digits) \in i .. k
    BY <1>1, <2>1, EndOfRunFacts
  <2> QED BY <2>2
<1>5. \A i \in 1 .. k : EndOfFraction(s, i) \in 1 .. k
  BY <1>2, <1>4 DEF EndOfFraction
<1>6. \A i \in 1 .. k : EndOfExponent(s, i) \in 1 .. k
  BY <1>2, <1>4 DEF EndOfExponent
<1>7. PICK end : end = EndOfExponent(s, EndOfFraction(s, int)) /\ end \in 1 .. k
  BY <1>3, <1>5, <1>6
<1>8. Number(s) = [kind |-> IF end = int THEN "Int" ELSE "Real", end |-> end]
  BY <1>3, <1>7 DEF Number
<1> QED BY <1>1, <1>7, <1>8

\* The lengths of spellings.
LEMMA SpellingFacts ==
  /\ DOMAIN Spelling = Single \cup {"..", "->", "::", ":=", ":>", ":>>"}
  /\ \A c \in Single : Spelling[c] = <<c>>
  /\ \A p \in DOMAIN Spelling : Len(Spelling[p]) \in 1 .. 3 /\ p # "EOF"
<1>1. DOMAIN Spelling = Single \cup {"..", "->", "::", ":=", ":>", ":>>"}
  BY DEF Spelling
<1>2. \A p \in {"..", "->", "::", ":=", ":>", ":>>"} : p \notin Single /\ p # "EOF"
  BY DEF Single
<1>3. \A c \in Single : c \in DOMAIN Spelling /\ Spelling[c] = <<c>>
  <2> TAKE c \in Single
  <2>1. c \notin {"..", "->", "::", ":=", ":>", ":>>"}
    BY <1>2
  <2> QED BY <2>1 DEF Spelling
<1>4. \A c \in Single : Len(Spelling[c]) = 1
  BY <1>3, SingleFacts
<1>5. "EOF" \notin Single
  BY DEF Single
<1>6. \A p \in {"..", "->", "::", ":=", ":>", ":>>"} : Len(Spelling[p]) \in 1 .. 3
  BY DEF Spelling
<1>7. \A p \in DOMAIN Spelling : Len(Spelling[p]) \in 1 .. 3 /\ p # "EOF"
  BY <1>1, <1>2, <1>4, <1>5, <1>6
<1> QED BY <1>1, <1>3, <1>7

\* The punctuation at the head of a text is part of it.
LEMMA PunctuationFacts ==
  ASSUME NEW s, IsRest(s), s[1] \in Single
  PROVE  Punctuation(s) # "EOF" /\ Len(Spelling[Punctuation(s)]) \in 1 .. Len(s)
<1>1. PICK k \in Nat : k = Len(s) /\ k >= 1 /\ IsSequence(s)
  BY TextFacts
<1>2. PICK F : F = {p \in DOMAIN Spelling : IsPrefix(Spelling[p], s)}
  OBVIOUS
<1>3. s[1] \in F
  <2>1. Spelling[s[1]] = <<s[1]>> /\ s[1] \in DOMAIN Spelling
    BY SpellingFacts
  <2>2. PICK h : h = SubSeq(s, 1, 1)
    OBVIOUS
  <2>3. IsSequence(h) /\ Len(h) = 1 /\ h[1] = s[1]
    BY <1>1, <2>2, PrefixFacts
  <2>4. h = <<s[1]>>
    <3>1. PICK g : g = <<s[1]>>
      OBVIOUS
    <3>2. IsSequence(g) /\ Len(g) = 1 /\ g[1] = s[1]
      BY <3>1, SingleFacts
    <3>3. \A i \in 1 .. Len(h) : h[i] = g[i]
      BY <2>3, <3>2
    <3>4. h = g
      BY <2>3, <3>2, <3>3, SameSequence
    <3> QED BY <3>1, <3>4
  <2>5. IsPrefix(<<s[1]>>, s)
    BY <1>1, <2>2, <2>4, SingleFacts DEF IsPrefix
  <2> QED BY <1>2, <2>1, <2>5
<1>4. PICK L : L = {Len(Spelling[p]) : p \in F}
  OBVIOUS
<1>5. L \in SUBSET (1 .. 3) /\ L # {}
  <2>1. \A p \in F : Len(Spelling[p]) \in 1 .. 3
    BY <1>2, SpellingFacts
  <2>2. Len(Spelling[s[1]]) \in L
    BY <1>3, <1>4
  <2> QED BY <1>4, <2>1, <2>2
<1>6. PICK m : m \in L /\ \A i \in L : i <= m
  BY <1>5, GreatestExists
<1>7. PICK p \in F : \A q \in F : Len(Spelling[q]) <= Len(Spelling[p])
  BY <1>4, <1>6
<1>8. Punctuation(s) \in F
  <2>1. Punctuation(s) = CHOOSE r \in F : \A q \in F : Len(Spelling[q]) <= Len(Spelling[r])
    BY <1>2 DEF Punctuation
  <2> QED BY <1>7, <2>1
<1>9. PICK r : r = Punctuation(s)
  OBVIOUS
<1>10. r \in DOMAIN Spelling /\ IsPrefix(Spelling[r], s)
  BY <1>2, <1>8, <1>9
<1>11. Len(Spelling[r]) <= Len(s)
  BY <1>10 DEF IsPrefix
<1>12. Len(Spelling[r]) \in 1 .. 3 /\ r # "EOF"
  BY <1>10, SpellingFacts
<1>13. Len(Spelling[r]) \in 1 .. 3
  BY <1>12
<1>14. PICK n : n = Len(Spelling[r])
  OBVIOUS
<1>15. n \in 1 .. 3 /\ n <= k
  BY <1>1, <1>11, <1>13, <1>14
<1>16. n \in 1 .. k
  BY <1>15
<1> QED BY <1>1, <1>9, <1>12, <1>14, <1>16

\* A token that is a part of a text of k characters.
InText(r, k) == r.kind # "EOF" /\ r.end \in 1 .. k

\* What begins a text and is none of the others is punctuation.
LEMMA AnyCharacter ==
  ASSUME NEW c, c # ""
  PROVE  \/ c \in Blanks \/ c \in Breaks \/ c \in DOMAIN QuoteKind \/ c \in Digits
         \/ IsLetter(c) \/ c \in Strange \/ c \in Single
BY DEF IsLetter

\* What Scan finds is a part of the text, and is not EOF.
LEMMA ScanFacts ==
  ASSUME NEW s, IsRest(s)
  PROVE  Scan(s).end \in 1 .. Len(s) /\ Scan(s).kind # "EOF"
<1>1. PICK k \in Nat : k = Len(s) /\ k >= 1 /\ DOMAIN s = 1 .. k
  BY TextFacts
<1>2. PICK c : c = s[1]
  OBVIOUS
<1> DEFINE R(kind, end) == [kind |-> kind, end |-> end]
<1>3. \A kind, end : kind # "EOF" /\ end \in 1 .. k => InText(R(kind, end), k)
  BY DEF InText
<1>4. 1 \in 1 .. k /\ 1 \in 1 .. k + 1 /\ 1 <= k
  BY <1>1
<1>5. c \in Blanks => InText(R("Whitespace", EndOfRun(s, 1, Blanks)), k)
  <2> HAVE c \in Blanks
  <2>1. EndOfRun(s, 1, Blanks) \in 1 .. k
    BY <1>1, <1>2, <1>4, EndOfRunFacts
  <2> QED BY <1>3, <2>1
<1>6. InText(R("Newline", 1), k)
  BY <1>3, <1>4
<1>7. InText(R("Newline", IF CharAt(s, 2) = "\n" THEN 2 ELSE 1), k)
  <2>1. CASE CharAt(s, 2) = "\n"
    <3>1. CharAt(s, 2) # ""
      BY <2>1
    <3>2. 2 \in 1 .. k
      BY <1>1, <3>1, TextFacts
    <3> QED BY <1>3, <2>1, <3>2
  <2>2. CASE CharAt(s, 2) # "\n"
    BY <1>6, <2>2
  <2> QED BY <2>1, <2>2
<1>8. CharAt(s, 2) # "" => 2 \in 1 .. k
  BY <1>1, TextFacts
<1>9. c = "/" => InText(R("LineComment", Min({j \in DOMAIN s : s[j] \in Breaks} \cup {Len(s) + 1}) - 1), k)
  <2> HAVE c = "/"
  <2>1. PICK S : S = {j \in DOMAIN s : s[j] \in Breaks}
    OBVIOUS
  <2>2. 1 \notin S
    <3>1. c \notin Breaks
      BY DEF Breaks
    <3> QED BY <1>2, <2>1, <3>1
  <2>3. S \in SUBSET (1 .. k)
    BY <1>1, <2>1
  <2>4. Min(S \cup {k + 1}) - 1 \in 1 .. k
    BY <1>1, <2>2, <2>3, EndBefore
  <2> QED BY <1>1, <1>3, <2>1, <2>4
<1>10. InText(R("BlockComment", EndOfComment(s)), k)
  <2>1. EndOfComment(s) \in 1 .. k
    BY <1>1, EndOfCommentFacts
  <2> QED BY <1>3, <2>1
<1>11. c \in DOMAIN QuoteKind => InText(R(QuoteKind[c], EndOfQuoted(s)), k)
  <2> HAVE c \in DOMAIN QuoteKind
  <2>1. EndOfQuoted(s) \in 1 .. k
    BY <1>1, EndOfQuotedFacts
  <2>2. QuoteKind[c] # "EOF"
    BY DEF QuoteKind
  <2> QED BY <1>3, <2>1, <2>2
<1>12. c \in Digits => InText(Number(s), k)
  <2> HAVE c \in Digits
  <2>1. Number(s).end \in 1 .. Len(s) /\ Number(s).kind # "EOF"
    BY <1>2, NumberFacts
  <2> QED BY <1>1, <2>1 DEF InText
<1>13. IsLetter(c) => InText(R("Ident", EndOfIdent(s)), k)
  <2> HAVE IsLetter(c)
  <2>1. PICK S : S = {j \in DOMAIN s : ~IsIdentContinue(s[j])}
    OBVIOUS
  <2>2. 1 \notin S
    BY <1>2, <2>1 DEF IsIdentContinue
  <2>3. S \in SUBSET (1 .. k)
    BY <1>1, <2>1
  <2>4. Min(S \cup {k + 1}) - 1 \in 1 .. k
    BY <1>1, <2>2, <2>3, EndBefore
  <2>5. EndOfIdent(s) = Min(S \cup {k + 1}) - 1
    BY <1>1, <2>1 DEF EndOfIdent
  <2> QED BY <1>3, <2>4, <2>5
<1>14. InText(R("Error", 1), k)
  BY <1>3, <1>4
<1>15. c \in Single => InText(R(Punctuation(s), Len(Spelling[Punctuation(s)])), k)
  <2> HAVE c \in Single
  <2>1. Punctuation(s) # "EOF" /\ Len(Spelling[Punctuation(s)]) \in 1 .. Len(s)
    BY <1>2, PunctuationFacts
  <2> QED BY <1>1, <1>3, <2>1
<1>16. c # ""
  BY <1>1, <1>2, <1>4, TextFacts
<1> HIDE DEF R
<1>17. InText(Scan(s), k)
  BY <1>2, <1>5, <1>6, <1>7, <1>9, <1>10, <1>11, <1>12, <1>13, <1>14, <1>15, <1>16, AnyCharacter
  DEF Scan, R, Breaks
<1> QED BY <1>1, <1>17 DEF InText

\* The next token is a part of the text.
LEMMA NextTokenFacts ==
  ASSUME NEW s, IsRest(s)
  PROVE  \E n \in 1 .. Len(s) :
           NextToken(s) = [kind |-> Scan(s).kind, text |-> SubSeq(s, 1, n)] /\ Scan(s).kind # "EOF"
BY ScanFacts DEF NextToken
-----------------------------------------------------------------------------
(***************************************************************************)
(* What is told: the source up to where the lexer stands is the text of    *)
(* the tokens, and the text of the nodes is that of the tokens up to where *)
(* the parser stands.  Only EOF is taken for EOF.                          *)
(***************************************************************************)
IsSource(s) == IsSequence(s) /\ {"", "EOF"} \cap ToSet(s) = {}
Lexed(ts, s) == \E k \in 0 .. Len(s) : TextOf(ts) = SubSeq(s, 1, k)
NoEOF(ts) == \A i \in DOMAIN ts : ts[i].kind # "EOF" /\ Keyword(ts[i]) # "EOF"

Told ==
  /\ IsSource(source) /\ AreTokens(tokens) /\ NoEOF(tokens) /\ Lexed(tokens, source)
  /\ Sound(b) /\ StackText(b) = TextOf(SubSeq(tokens, 1, pos - 1))

\* What has not been lexed, and the next token of it.
LEMMA LexedNext ==
  ASSUME NEW s, IsSource(s), NEW k \in 0 .. Len(s), NEW u, u = SubSeq(s, k + 1, Len(s)), u # <<>>
  PROVE  /\ IsRest(u)
         /\ \A n \in 1 .. Len(u) : /\ IsSequence(SubSeq(u, 1, n)) /\ k + n \in 0 .. Len(s)
                                   /\ SubSeq(s, 1, k) \o SubSeq(u, 1, n) = SubSeq(s, 1, k + n)
                                   /\ SubSeq(u, 1, n)[1] # "EOF"
<1>1. PICK l \in Nat : l = Len(s) /\ IsSequence(s)
  BY SequenceFacts DEF IsSource
<1>2. k \in Nat /\ k <= l /\ k + 1 \in 1 .. l + 1 /\ l \in (k + 1) - 1 .. l /\ l - (k + 1) + 1 = l - k
  BY <1>1
<1>3. IsSequence(u) /\ Len(u) = l - k /\ \A i \in 1 .. l - k : u[i] = s[k + 1 + i - 1]
  BY <1>1, <1>2, SubSeqFacts
<1>4. \A i \in 1 .. l - k : k + 1 + i - 1 = k + i /\ k + i \in 1 .. l
  BY <1>2
<1>5. \A i \in 1 .. l - k : u[i] = s[k + i] /\ k + i \in 1 .. l
  BY <1>3, <1>4
<1>6. \A j \in 1 .. l : s[j] \notin {"", "EOF"}
  <2>1. DOMAIN s = 1 .. l
    BY <1>1, SequenceFacts
  <2> QED BY <2>1 DEF IsSource, ToSet
<1>7. \A i \in 1 .. l - k : u[i] \notin {"", "EOF"}
  BY <1>5, <1>6
<1>8. IsRest(u)
  <2>1. DOMAIN u = 1 .. l - k
    BY <1>3, SequenceFacts
  <2> QED BY <1>3, <1>7, <2>1 DEF IsRest, ToSet
<1>9. ASSUME NEW n \in 1 .. Len(u)
      PROVE  /\ IsSequence(SubSeq(u, 1, n)) /\ k + n \in 0 .. Len(s)
             /\ SubSeq(s, 1, k) \o SubSeq(u, 1, n) = SubSeq(s, 1, k + n)
             /\ SubSeq(u, 1, n)[1] # "EOF"
  <2>1. n \in Nat /\ n >= 1 /\ n <= l - k /\ n \in 1 .. l - k /\ n \in 0 .. Len(u)
    BY <1>1, <1>2, <1>3
  <2>2. PICK h : h = SubSeq(u, 1, n)
    OBVIOUS
  <2>3. IsSequence(h) /\ Len(h) = n /\ \A i \in 1 .. n : h[i] = u[i]
    BY <1>3, <2>1, <2>2, PrefixFacts
  <2>4. PICK p : p = SubSeq(s, 1, k)
    OBVIOUS
  <2>5. IsSequence(p) /\ Len(p) = k /\ \A i \in 1 .. k : p[i] = s[i]
    BY <1>1, <2>4, PrefixFacts
  <2>6. PICK q : q = k + n /\ q \in 0 .. l
    BY <1>2, <2>1
  <2>7. PICK r : r = SubSeq(s, 1, q)
    OBVIOUS
  <2>8. IsSequence(r) /\ Len(r) = q /\ \A i \in 1 .. q : r[i] = s[i]
    BY <1>1, <2>6, <2>7, PrefixFacts
  <2>9. PICK c : c = p \o h
    OBVIOUS
  <2>10. IsSequence(c) /\ Len(c) = q /\ \A i \in 1 .. q : c[i] = IF i <= k THEN p[i] ELSE h[i - k]
    <3>1. /\ IsSequence(p \o h) /\ Len(p \o h) = Len(p) + Len(h)
          /\ \A i \in 1 .. Len(p) + Len(h) : (p \o h)[i] = IF i <= Len(p) THEN p[i] ELSE h[i - Len(p)]
      BY <2>3, <2>5, ConcatFacts
    <3> QED BY <2>3, <2>5, <2>6, <2>9, <3>1
  <2>11. \A i \in 1 .. q : c[i] = s[i]
    <3> TAKE i \in 1 .. q
    <3>1. CASE i <= k
      <4>1. i \in 1 .. k
        BY <1>2, <2>1, <2>6, <3>1
      <4> QED BY <2>5, <2>10, <3>1, <4>1
    <3>2. CASE ~(i <= k)
      <4>1. PICK j : j = i - k /\ j \in 1 .. n /\ j \in 1 .. l - k /\ k + j = i
        BY <1>2, <2>1, <2>6, <3>2
      <4>2. c[i] = h[j] /\ h[j] = u[j] /\ u[j] = s[i]
        BY <1>5, <2>3, <2>10, <3>2, <4>1
      <4> QED BY <4>2
    <3> QED BY <3>1, <3>2
  <2>12. c = r
    BY <2>8, <2>10, <2>11, SameSequence
  <2>13. h[1] # "EOF"
    <3>1. 1 \in 1 .. n /\ 1 \in 1 .. l - k
      BY <2>1
    <3>2. h[1] = u[1] /\ u[1] \notin {"", "EOF"}
      BY <1>7, <2>3, <3>1
    <3> QED BY <3>2
  <2> QED BY <1>1, <2>2, <2>3, <2>4, <2>6, <2>7, <2>9, <2>12, <2>13
<1> QED BY <1>8, <1>9

\* The tokens that have been emitted stay when more are lexed.
LEMMA SamePrefix ==
  ASSUME NEW ts, NEW t, IsSequence(ts), NEW n \in 0 .. Len(ts)
  PROVE  SubSeq(Append(ts, t), 1, n) = SubSeq(ts, 1, n)
<1>1. PICK l \in Nat : l = Len(ts)
  BY SequenceFacts
<1>2. PICK us : us = Append(ts, t)
  OBVIOUS
<1>3. IsSequence(us) /\ Len(us) = l + 1 /\ \A i \in 1 .. l : us[i] = ts[i]
  BY <1>1, <1>2, AppendFacts
<1>4. n \in 0 .. l + 1 /\ n \in Nat /\ \A i \in 1 .. n : i \in 1 .. l
  BY <1>1
<1>5. PICK p : p = SubSeq(us, 1, n)
  OBVIOUS
<1>6. IsSequence(p) /\ Len(p) = n /\ \A i \in 1 .. n : p[i] = us[i]
  BY <1>3, <1>4, <1>5, PrefixFacts
<1>7. PICK q : q = SubSeq(ts, 1, n)
  OBVIOUS
<1>8. IsSequence(q) /\ Len(q) = n /\ \A i \in 1 .. n : q[i] = ts[i]
  BY <1>1, <1>7, PrefixFacts
<1>9. \A i \in 1 .. n : p[i] = q[i]
  BY <1>3, <1>4, <1>6, <1>8
<1>10. p = q
  BY <1>6, <1>8, <1>9, SameSequence
<1> QED BY <1>2, <1>5, <1>7, <1>10

\* The lexer adds a token, whose text comes next in the source.
LEMMA LexTold ==
  ASSUME Balanced, Told, LexToken
  PROVE  Told'
<1>1. PICK k \in 0 .. Len(source) : TextOf(tokens) = SubSeq(source, 1, k)
  BY DEF Told, Lexed
<1>2. Len(TextOf(tokens)) = k
  BY <1>1, PrefixFacts DEF Told, IsSource
<1>3. PICK u : u = Unlexed /\ u = SubSeq(source, k + 1, Len(source)) /\ u # <<>>
  BY <1>2 DEF Unlexed, LexToken
<1>4. /\ IsRest(u)
      /\ \A n \in 1 .. Len(u) : /\ IsSequence(SubSeq(u, 1, n)) /\ k + n \in 0 .. Len(source)
                                /\ SubSeq(source, 1, k) \o SubSeq(u, 1, n) = SubSeq(source, 1, k + n)
                                /\ SubSeq(u, 1, n)[1] # "EOF"
  BY <1>3, LexedNext DEF Told
<1>5. PICK n \in 1 .. Len(u) :
        NextToken(u) = [kind |-> Scan(u).kind, text |-> SubSeq(u, 1, n)] /\ Scan(u).kind # "EOF"
  BY <1>4, NextTokenFacts
<1>6. PICK t : t = NextToken(u) /\ t.text = SubSeq(u, 1, n) /\ t.kind # "EOF"
  BY <1>5
<1>7. tokens' = Append(tokens, t) /\ UNCHANGED <<source, pos, todo, marks, b>>
  BY <1>3, <1>6 DEF LexToken
<1>8. IsSequence(t.text) /\ Keyword(t) # "EOF"
  BY <1>4, <1>6 DEF Keyword
<1>9. PICK l \in Nat : l = Len(tokens) /\ IsSequence(tokens) /\ DOMAIN tokens = 1 .. l
  BY SequenceFacts DEF Told, AreTokens
<1>10. PICK ts : ts = Append(tokens, t)
  OBVIOUS
<1>11. /\ IsSequence(ts) /\ DOMAIN ts = 1 .. l + 1 /\ ts[l + 1] = t
       /\ \A i \in 1 .. l : ts[i] = tokens[i]
  BY <1>9, <1>10, AppendFacts, SequenceFacts
<1>12. \A i \in DOMAIN ts : ts[i] = t \/ (i \in DOMAIN tokens /\ ts[i] = tokens[i])
  BY <1>9, <1>11
<1>13. AreTokens(ts) /\ NoEOF(ts)
  BY <1>6, <1>8, <1>11, <1>12 DEF Told, AreTokens, NoEOF
<1>14. Lexed(ts, source)
  <2>1. TextOf(ts) = TextOf(tokens) \o t.text
    BY <1>8, <1>9, <1>10, TextOfAppend
  <2>2. TextOf(ts) = SubSeq(source, 1, k + n)
    BY <1>1, <1>4, <1>6, <2>1
  <2> QED BY <1>4, <2>2 DEF Lexed
<1>15. SubSeq(ts, 1, pos - 1) = SubSeq(tokens, 1, pos - 1)
  <2>1. pos - 1 \in 0 .. Len(tokens)
    BY <1>9 DEF Balanced, Reads
  <2> QED BY <1>9, <1>10, <2>1, SamePrefix
<1> QED BY <1>7, <1>10, <1>13, <1>14, <1>15 DEF Told

\* Tokens are emitted.
LEMMA EmitTold ==
  ASSUME Balanced, Told, NEW n \in pos - 1 .. Len(tokens), Emit(n), Len(b.stack) >= 1
  PROVE  Told'
<1>1. b' = Emitted(b, SubSeq(tokens, pos, n)) /\ pos' = n + 1 /\ UNCHANGED <<source, tokens, marks>>
  BY DEF Emit, Emitted
<1>2. Sound(b') /\ StackText(b') = TextOf(SubSeq(tokens, 1, n))
  BY <1>1, EmitText DEF Balanced, Reads, Told
<1>3. (n + 1) - 1 = n
  BY SequenceFacts DEF Balanced, Reads
<1> QED BY <1>1, <1>2, <1>3 DEF Told

\* What Wrap wraps begins behind children that the open node has.
LEMMA LastCheckpoint ==
  ASSUME Balanced, During, Doing("wrap")
  PROVE  Last(marks).cp.n \in 0 .. Len(b.stack[Len(b.stack)].children)
<1>1. PICK x, rest : Head(todo) = x /\ Proceeds(x, rest, Len(b.stack), Depths(marks))
  BY DuringProceeds
<1>2. x.op = "wrap"
  BY <1>1 DEF Doing
<1>3. PICK m0 : IsSequence(m0) /\ Depths(marks) = Append(m0, Len(b.stack))
  BY <1>1, <1>2 DEF Proceeds, Atoms
<1>4. Len(b.stack) \in Nat
  BY StackFacts DEF Balanced
<1>5. Len(marks) = Len(m0) + 1 /\ Len(m0) \in Nat /\ marks[Len(marks)].cp.frame = Len(b.stack)
  BY <1>3, <1>4, LastMark DEF Balanced, MarksIn
<1>6. Len(marks) \in 1 .. Len(marks)
  BY <1>5
<1> QED BY <1>5, <1>6 DEF Balanced, MarksIn, Last

\* What a step makes of the builder, if it tells the same.
LEMMA SameTold ==
  ASSUME Told, UNCHANGED <<source, tokens, pos>>, Sound(b'), StackText(b') = StackText(b)
  PROVE  Told'
BY DEF Told

\* Each step of the parser keeps what is told.
LEMMA ToldNext == Balanced /\ Told /\ [Next]_vars => Told'
<1> SUFFICES ASSUME Balanced, Told, [Next]_vars
             PROVE  Told'
  OBVIOUS
<1>1. ASSUME UNCHANGED <<source, tokens, pos, b>>
      PROVE  Told'
  BY <1>1 DEF Told
<1>2. CASE UNCHANGED vars
  BY <1>1, <1>2 DEF vars
<1>3. CASE LexToken
  BY <1>3, LexTold
<1>4. CASE LexEOF
  BY <1>1, <1>4 DEF LexEOF, StandStill
<1>5. Len(b.stack) \in Nat /\ Sound(b) /\ IsBuilder(b)
  BY StackFacts DEF Balanced, Told
<1>6. ASSUME todo # <<>>, Head(todo).op \notin {"lex", "open"}
      PROVE  During /\ Len(b.stack) >= 2
  BY <1>6, BeforeHead DEF Balanced, After, During
<1>7. CASE DoBump
  <2>1. Len(b.stack) >= 2
    BY <1>6, <1>7 DEF DoBump, Doing
  <2>2. PICK n : n = Min({BeforeSignificant + 1, Len(tokens)}) /\ n \in pos - 1 .. Len(tokens)
    BY BumpEnds DEF Balanced
  <2>3. Emit(n)
    BY <1>7, <2>2 DEF DoBump
  <2> QED BY <1>5, <2>1, <2>2, <2>3, EmitTold
<1>8. CASE DoEmitTrivia
  <2>1. Len(b.stack) >= 2
    BY <1>6, <1>8 DEF DoEmitTrivia, Doing
  <2>2. PICK n : n = BeforeSignificant /\ n \in pos - 1 .. Len(tokens)
    BY BeforeSignificantFacts DEF Balanced
  <2>3. Emit(n)
    BY <1>8, <2>2 DEF DoEmitTrivia
  <2> QED BY <1>5, <2>1, <2>2, <2>3, EmitTold
<1>9. CASE DoStartNode
  <2>1. PICK kind : b' = StartNode(b, kind)
    BY <1>9 DEF DoStartNode
  <2> QED BY <1>5, <1>9, <2>1, StartNodeText, SameTold DEF DoStartNode, StandStill
<1>10. CASE DoFinishNode
  <2>1. Len(b.stack) >= 2
    BY <1>6, <1>10 DEF DoFinishNode, Doing
  <2>2. b' = FinishNode(b)
    BY <1>10 DEF DoFinishNode
  <2> QED BY <1>5, <1>10, <2>1, <2>2, FinishNodeText, SameTold DEF DoFinishNode, StandStill
<1>11. CASE Choose \/ Iterate \/ ReturnEarly \/ ParseMember \/ TakeCheckpoint \/ ChooseKind
  BY <1>1, <1>11 DEF Choose, Iterate, ReturnEarly, ParseMember, TakeCheckpoint, ChooseKind, StandStill
<1>12. CASE WrapMarked
  <2>1. During /\ Len(b.stack) >= 2
    BY <1>6, <1>12 DEF WrapMarked, Doing
  <2>2. PICK cp, kind : cp = Last(marks).cp /\ kind = Last(marks).kind
    OBVIOUS
  <2>3. cp.n \in 0 .. Len(b.stack[Len(b.stack)].children)
    BY <1>12, <2>1, <2>2, LastCheckpoint DEF WrapMarked
  <2>4. PICK y : y = StartNodeAt(b, cp, kind)
    OBVIOUS
  <2>5. Sound(y) /\ StackText(y) = StackText(b) /\ Len(y.stack) = Len(b.stack) + 1
    BY <1>5, <2>1, <2>3, <2>4, StartNodeAtText
  <2>6. Len(y.stack) >= 2
    BY <1>5, <2>1, <2>5
  <2>7. b' = FinishNode(y)
    BY <1>12, <2>2, <2>4 DEF WrapMarked
  <2> QED BY <1>12, <2>5, <2>6, <2>7, FinishNodeText, SameTold DEF WrapMarked, StandStill
<1> QED BY <1>2, <1>3, <1>4, <1>7, <1>8, <1>9, <1>10, <1>11, <1>12 DEF Next

\* At the beginning nothing is.
LEMMA ToldInit == Init => Told
<1> SUFFICES ASSUME Init
             PROVE  Told
  OBVIOUS
<1>1. IsSource(source)
  BY SourcesAssumption DEF Init, IsSource
<1>2. tokens = <<>> /\ pos = 1 /\ b = NewBuilder
  BY DEF Init
<1>3. AreTokens(tokens) /\ NoEOF(tokens)
  BY <1>2, EmptyIsSequence DEF AreTokens, NoEOF
<1>4. TextOf(<<>>) = <<>>
  <2>1. [i \in DOMAIN <<>> |-> <<>>[i].text] = <<>>
    BY EmptyIsSequence, SequenceFacts, SequenceOf, OnlyEmpty
  <2> QED BY <2>1, FlattenEmpty DEF TextOf
<1>5. \A s : IsSequence(s) => SubSeq(s, 1, 0) = <<>>
  <2> TAKE s
  <2> HAVE IsSequence(s)
  <2>1. 0 \in 0 .. Len(s)
    BY SequenceFacts
  <2>2. IsSequence(SubSeq(s, 1, 0)) /\ Len(SubSeq(s, 1, 0)) = 0
    BY <2>1, PrefixFacts
  <2> QED BY <2>2, OnlyEmpty
<1>6. Lexed(tokens, source)
  <2>1. 0 \in 0 .. Len(source)
    <3>1. IsSequence(source)
      BY <1>1 DEF IsSource
    <3>2. Len(source) \in Nat
      BY <3>1, SequenceFacts
    <3> QED BY <3>2
  <2> QED BY <1>1, <1>2, <1>4, <1>5, <2>1 DEF Lexed, IsSource
<1>7. IsArena(b)
  BY <1>2, EmptyIsSequence DEF IsArena, NewBuilder
<1>8. b.stack = <<Frame("base", <<>>)>> /\ IsBuilder(b)
  BY BalancedInit DEF Balanced, Init, NewBuilder
<1>9. Children(b, <<>>) /\ ChildrenText(b, <<>>) = <<>>
  BY <1>7, NoChildren
<1>10. PICK f : f = Frame("base", <<>>) /\ f.children = <<>>
  <2>1. Frame("base", <<>>).children = <<>>
    BY DEF Frame
  <2> QED BY <2>1
<1>11. IsSequence(<<f>>) /\ Len(<<f>>) = 1 /\ DOMAIN <<f>> = {1} /\ <<f>>[1] = f
  BY SingleFacts
<1>12. Frames(b, b.stack)
  BY <1>8, <1>9, <1>10, <1>11 DEF Frames
<1>13. Layout(b, b.stack) = <<<<>>>>
  <2>1. PICK l : l = Layout(b, b.stack)
    OBVIOUS
  <2>2. IsSequence(l) /\ Len(l) = 1 /\ \A i \in 1 .. 1 : l[i] = ChildrenText(b, b.stack[i].children)
    BY <1>7, <1>8, <1>10, <1>11, <1>12, <2>1, LayoutFacts
  <2>3. 1 \in 1 .. 1
    OBVIOUS
  <2>4. l[1] = <<>>
    BY <1>8, <1>9, <1>10, <1>11, <2>2, <2>3
  <2>5. PICK g : g = <<<<>>>>
    OBVIOUS
  <2>6. IsSequence(g) /\ Len(g) = 1 /\ g[1] = <<>>
    BY <2>5, SingleFacts
  <2>7. \A i \in 1 .. 1 : i = 1
    OBVIOUS
  <2>8. l = g
    BY <2>2, <2>4, <2>6, <2>7, SameSequence
  <2> QED BY <2>1, <2>5, <2>8
<1>14. StackText(b) = <<>>
  BY <1>13, EmptyIsSequence, FlattenSingle DEF StackText
<1>15. TextOf(SubSeq(tokens, 1, pos - 1)) = <<>>
  <2>1. pos - 1 = 0
    BY <1>2
  <2>2. SubSeq(tokens, 1, 0) = <<>>
    BY <1>2, <1>5, EmptyIsSequence
  <2> QED BY <1>4, <2>1, <2>2
<1> QED BY <1>1, <1>3, <1>6, <1>7, <1>8, <1>12, <1>14, <1>15 DEF Told, Sound
-----------------------------------------------------------------------------
(***************************************************************************)
(* How the parse ends.  A function that returns early does not drop what   *)
(* SourceFile has still to do: everything to be done before is plain, or   *)
(* the end of a node, or a part of ImportName, behind which its node ends. *)
(***************************************************************************)
Calm(x) == PlainOne(x) \/ x.op \in {"open", "close", "mark", "wrap"}
ImportOne(x) == x \in {ImportStart, ImportStep, Return} \/ \E p : x = ImportSegments(p)
Loose(v) == IsSequence(v) /\ \A i \in 1 .. Len(v) : Calm(v[i]) \/ ImportOne(v[i])
Settled(v) == Loose(v) /\ (v # <<>> => Calm(v[Len(v)]))

\* One after the other.
LEMMA SettledConcat ==
  ASSUME NEW u, NEW w, Loose(u), Loose(w)
  PROVE  /\ Loose(u \o w)
         /\ Settled(w) /\ (w # <<>> \/ Settled(u)) => Settled(u \o w)
<1>1. PICK n \in Nat, m \in Nat : n = Len(u) /\ m = Len(w) /\ IsSequence(u) /\ IsSequence(w)
  BY SequenceFacts DEF Loose
<1>2. PICK c : c = u \o w
  OBVIOUS
<1>3. IsSequence(c) /\ Len(c) = n + m /\ \A i \in 1 .. n + m : c[i] = IF i <= n THEN u[i] ELSE w[i - n]
  <2>1. /\ IsSequence(u \o w) /\ Len(u \o w) = Len(u) + Len(w)
        /\ \A i \in 1 .. Len(u) + Len(w) : (u \o w)[i] = IF i <= Len(u) THEN u[i] ELSE w[i - Len(u)]
    BY <1>1, ConcatFacts
  <2> QED BY <1>1, <1>2, <2>1
<1>4. Loose(c)
  <2>1. ASSUME NEW i \in 1 .. n + m
        PROVE  Calm(c[i]) \/ ImportOne(c[i])
    <3>1. CASE i <= n
      <4>1. i \in 1 .. n /\ c[i] = u[i]
        BY <1>3, <3>1
      <4> QED BY <1>1, <4>1 DEF Loose
    <3>2. CASE ~(i <= n)
      <4>1. i - n \in 1 .. m /\ c[i] = w[i - n]
        BY <1>3, <3>2
      <4> QED BY <1>1, <4>1 DEF Loose
    <3> QED BY <3>1, <3>2
  <2> QED BY <1>3, <2>1 DEF Loose
<1>5. CASE w = <<>>
  <2>1. c = u
    BY <1>1, <1>2, <1>5, ConcatEmpty
  <2> QED BY <1>2, <1>4, <1>5, <2>1
<1>6. CASE w # <<>>
  <2>1. m # 0
    BY <1>1, <1>6, OnlyEmpty
  <2>2. n + m \in 1 .. n + m /\ ~(n + m <= n) /\ (n + m) - n = m
    BY <2>1
  <2>3. c[n + m] = w[m]
    BY <1>3, <2>2
  <2>4. Settled(w) => Settled(c)
    BY <1>1, <1>3, <1>4, <1>6, <2>3 DEF Settled
  <2> QED BY <1>2, <1>4, <2>4
<1> QED BY <1>5, <1>6

\* Nothing, and a single instruction.
LEMMA SettledSingle ==
  /\ Settled(<<>>)
  /\ \A x : Calm(x) => Settled(<<x>>)
  /\ \A x : Calm(x) \/ ImportOne(x) => Loose(<<x>>)
<1>1. Settled(<<>>)
  BY EmptyIsSequence DEF Settled, Loose
<1>2. \A x : \A i \in 1 .. Len(<<x>>) : <<x>>[i] = x
  <2>1. \A x : Len(<<x>>) = 1 /\ <<x>>[1] = x
    BY SingleFacts
  <2>2. \A i \in 1 .. 1 : i = 1
    OBVIOUS
  <2> QED BY <2>1, <2>2
<1>3. \A x : Calm(x) \/ ImportOne(x) => Loose(<<x>>)
  BY <1>2, SingleFacts DEF Loose
<1>4. \A x : <<x>>[Len(<<x>>)] = x
  BY SingleFacts
<1> QED BY <1>1, <1>3, <1>4 DEF Settled

\* An instruction and what follows it.
LEMMA SettledCons ==
  ASSUME NEW x, NEW v, Settled(v), Calm(x) \/ (ImportOne(x) /\ v # <<>>)
  PROVE  Settled(Cons(x, v))
<1>1. PICK s : s = <<x>> /\ Loose(s) /\ (Calm(x) => Settled(s))
  BY SettledSingle
<1>2. Settled(s \o v)
  BY <1>1, SettledConcat DEF Settled
<1> QED BY <1>1, <1>2 DEF Cons

\* What follows the first instruction.
LEMMA SettledTail ==
  ASSUME NEW x, NEW w, IsSequence(w), Settled(Cons(x, w))
  PROVE  Settled(w) /\ (Calm(x) \/ (ImportOne(x) /\ w # <<>>))
<1>1. PICK n \in Nat : n = Len(w)
  BY SequenceFacts
<1>2. PICK v : v = Cons(x, w)
  OBVIOUS
<1>3. Len(v) = n + 1 /\ v # <<>> /\ v[1] = x /\ \A i \in 1 .. n : v[i + 1] = w[i]
  <2>1. /\ Len(<<x>> \o w) = Len(<<x>>) + Len(w)
        /\ \A i \in 1 .. Len(<<x>>) + Len(w) :
             (<<x>> \o w)[i] = IF i <= Len(<<x>>) THEN <<x>>[i] ELSE w[i - Len(<<x>>)]
    BY SingleFacts, ConcatFacts
  <2>2. Len(<<x>>) = 1 /\ <<x>>[1] = x
    BY SingleFacts
  <2>3. v = <<x>> \o w
    BY <1>2 DEF Cons
  <2>4. Len(v) = 1 + n /\ \A i \in 1 .. 1 + n : v[i] = IF i <= 1 THEN <<x>>[i] ELSE w[i - 1]
    BY <1>1, <2>1, <2>2, <2>3
  <2>5. \A i \in 1 .. n : i + 1 \in 1 .. 1 + n /\ ~(i + 1 <= 1) /\ (i + 1) - 1 = i
    OBVIOUS
  <2>6. 1 \in 1 .. 1 + n /\ 1 <= 1 /\ 1 + n = n + 1
    OBVIOUS
  <2>7. v # <<>>
    BY <1>2, ConsFacts
  <2> QED BY <2>2, <2>4, <2>5, <2>6, <2>7
<1>4. \A i \in 1 .. n : i + 1 \in 1 .. n + 1
  OBVIOUS
<1>5. \A i \in 1 .. n + 1 : Calm(v[i]) \/ ImportOne(v[i])
  BY <1>2, <1>3 DEF Settled, Loose
<1>6. Loose(w)
  BY <1>1, <1>3, <1>4, <1>5 DEF Loose
<1>7. Calm(v[n + 1])
  BY <1>2, <1>3 DEF Settled
<1>8. CASE w = <<>>
  <2>1. n = 0
    BY <1>1, <1>8, EmptyIsSequence
  <2>2. Calm(x)
    BY <1>3, <1>7, <2>1
  <2> QED BY <1>8, <2>2, SettledSingle
<1>9. CASE w # <<>>
  <2>1. n # 0
    BY <1>1, <1>9, OnlyEmpty
  <2>2. n \in 1 .. n /\ 1 \in 1 .. n + 1
    BY <2>1
  <2>3. Calm(w[n])
    BY <1>3, <1>7, <2>2
  <2>4. Calm(x) \/ ImportOne(x)
    BY <1>3, <1>5, <2>2
  <2> QED BY <1>1, <1>6, <1>9, <2>3, <2>4 DEF Settled
<1> QED BY <1>8, <1>9

\* What is left of ImportName.
LEMMA ImportRestLoose ==
  ASSUME NEW u, ImportRest(u)
  PROVE  Loose(u)
<1>1. \A x : ImportOne(x) => Loose(<<x>>)
  BY SettledSingle
<1>2. \A x, y : ImportOne(x) /\ ImportOne(y) => Loose(<<x, y>>)
  <2> SUFFICES ASSUME NEW x, NEW y, ImportOne(x), ImportOne(y)
               PROVE  Loose(<<x, y>>)
    OBVIOUS
  <2>1. PICK s, t : s = <<x>> /\ t = <<y>> /\ Loose(s) /\ Loose(t)
    BY <1>1
  <2>2. Loose(s \o t)
    BY <2>1, SettledConcat
  <2>3. <<x, y>> = s \o t
    BY <2>1, PairIs
  <2> QED BY <2>2, <2>3
<1>3. ImportOne(ImportStart) /\ ImportOne(ImportStep) /\ ImportOne(Return) /\ \A p : ImportOne(ImportSegments(p))
  BY DEF ImportOne
<1> QED BY <1>1, <1>2, <1>3 DEF ImportRest

\* What is plain is settled.
LEMMA PlainSettled ==
  ASSUME NEW s, Plain(s)
  PROVE  Settled(s)
<1> DEFINE T == {n \in Nat : \E t : Plain(t) /\ Len(t) = n /\ ~Settled(t)}
<1> SUFFICES ASSUME T # {}
             PROVE  FALSE
  <2>1. Len(s) \in Nat
    BY PlainSequence, SequenceFacts
  <2> QED BY <2>1
<1>1. T \in SUBSET Nat
  OBVIOUS
<1>2. PICK n \in T : \A m \in T : n <= m
  BY <1>1, LeastElement
<1>3. PICK t : Plain(t) /\ Len(t) = n /\ ~Settled(t)
  OBVIOUS
<1>4. n \in Nat
  BY <1>1
<1>5. ASSUME NEW v, Plain(v), Len(v) < n
      PROVE  Settled(v)
  <2>1. Len(v) \in Nat
    BY <1>5, PlainSequence, SequenceFacts
  <2>2. ~(n <= Len(v))
    BY <1>4, <1>5, <2>1
  <2>3. Len(v) \notin T
    BY <1>2, <2>2
  <2> QED BY <1>5, <2>1, <2>3
<1> HIDE DEF T
<1>6. \A x, w : IsSequence(w) => Len(Cons(x, w)) = Len(w) + 1 /\ Len(w) \in Nat
  BY HeadTailFacts, SequenceFacts DEF Cons
<1>7. \A u, w : IsSequence(u) /\ IsSequence(w) =>
                  Len(u \o w) = Len(u) + Len(w) /\ Len(u) \in Nat /\ Len(w) \in Nat /\ IsSequence(u \o w)
  BY ConcatFacts, SequenceFacts
<1>8. ASSUME NEW x, NEW y, NEW u, NEW v, IsSequence(u), Plain(v), t = Enclosed(x, u, y, v)
      PROVE  Len(u) < n /\ Settled(v) /\ IsSequence(Cons(y, v)) /\ Cons(y, v) # <<>>
  <2>1. IsSequence(v)
    BY <1>8, PlainSequence
  <2>2. PICK c : c = Cons(y, v) /\ IsSequence(c) /\ c # <<>> /\ Len(c) = Len(v) + 1 /\ Len(v) \in Nat
    BY <1>6, <2>1, ConsFacts
  <2>3. PICK d : d = u \o c /\ IsSequence(d) /\ Len(d) = Len(u) + Len(c) /\ Len(u) \in Nat
    BY <1>7, <1>8, <2>2
  <2>4. t = Cons(x, d) /\ Len(t) = Len(d) + 1
    BY <1>6, <1>8, <2>2, <2>3 DEF Enclosed
  <2>5. Len(v) < n /\ Len(u) < n
    BY <1>3, <2>2, <2>3, <2>4
  <2> QED BY <1>5, <1>8, <2>2, <2>5
<1>9. \A kind : Calm(Open(kind))
  BY DEF Calm, Open
<1>10. Calm(Close) /\ Calm(Mark) /\ Calm(Wrap)
  BY DEF Calm, Close, Mark, Wrap
<1>11. t # <<>>
  BY <1>3, SettledSingle
<1>12. ASSUME NEW x, NEW v, Plain(v), PlainOne(x), t = Cons(x, v)
       PROVE  FALSE
  <2>1. Len(v) < n
    <3>1. Len(t) = Len(v) + 1 /\ Len(v) \in Nat
      BY <1>6, <1>12, PlainSequence
    <3> QED BY <1>3, <3>1
  <2>2. Settled(v) /\ Calm(x)
    BY <1>5, <1>12, <2>1 DEF Calm
  <2> QED BY <1>3, <1>12, <2>2, SettledCons
<1>13. ASSUME NEW x, NEW y, NEW u, NEW v, Plain(u) \/ ImportRest(u), Plain(v),
              Calm(x), Calm(y), t = Enclosed(x, u, y, v)
       PROVE  FALSE
  <2>1. IsSequence(u)
    BY <1>13, PlainSequence, ImportRestSequence
  <2>2. Len(u) < n /\ Settled(v) /\ Cons(y, v) # <<>>
    BY <1>8, <1>13, <2>1
  <2>3. Loose(u)
    BY <1>5, <1>13, <2>2, ImportRestLoose DEF Settled
  <2>4. PICK c : c = Cons(y, v) /\ Settled(c) /\ c # <<>>
    BY <1>13, <2>2, SettledCons
  <2>5. PICK d : d = u \o c /\ Settled(d)
    BY <2>3, <2>4, SettledConcat DEF Settled
  <2>6. Settled(Cons(x, d))
    BY <1>13, <2>5, SettledCons
  <2> QED BY <1>3, <1>13, <2>4, <2>5, <2>6 DEF Enclosed
<1> QED BY <1>3, <1>9, <1>10, <1>11, <1>12, <1>13, PlainCases

(***************************************************************************)
(* SourceFile ends with a loop that reads members up to EOF, the trivia    *)
(* that are left, and the end of the root.                                 *)
(***************************************************************************)
Members(p) == [op |-> "until", class |-> "EOF", body |-> <<Member>>, last |-> p]
Finish == Cons(EmitTrivia, Cons(Close, <<>>))
Rest(p) == Cons(Members(p), Finish)
AtEnd == pos = Len(tokens) + 1

Ending ==
  \/ todo = Cons(Lex, SourceFile)
  \/ /\ Unlexed = <<>>
     /\ \/ \E v, p : Settled(v) /\ todo = v \o Rest(p)
        \/ todo = Finish /\ Current = EOF
        \/ todo \in {Cons(Close, <<>>), <<>>} /\ AtEnd

\* These are sequences.
LEMMA RestSequence ==
  /\ IsSequence(Cons(Close, <<>>)) /\ IsSequence(Finish) /\ \A p : IsSequence(Rest(p))
BY EmptyIsSequence, ConsFacts DEF Finish, Rest

\* SourceFile opens the root first.
LEMMA SourceFileRest == SourceFile = <<Open("SourceFile")>> \o Rest(0)
<1>1. PICK s, t, u, v : s = <<Open("SourceFile")>> /\ t = <<Members(0)>> /\ u = <<EmitTrivia>> /\ v = <<Close>>
  OBVIOUS
<1>2. IsSequence(s) /\ IsSequence(t) /\ IsSequence(u) /\ IsSequence(v)
  BY <1>1, SingleFacts
<1>3. Until("EOF", <<Member>>) = Members(0)
  BY DEF Until, Members
<1>4. <<Until("EOF", <<Member>>), EmitTrivia>> = t \o u
  BY <1>1, <1>3, PairIs
<1>5. SourceFile = (s \o (t \o u)) \o v
  BY <1>1, <1>4 DEF SourceFile, Node
<1>6. IsSequence(t \o u) /\ IsSequence(u \o v)
  BY <1>2, ConcatFacts
<1>7. (s \o (t \o u)) \o v = s \o ((t \o u) \o v)
  <2>1. PICK w : w = t \o u
    OBVIOUS
  <2>2. IsSequence(s) /\ IsSequence(w) /\ IsSequence(v)
    BY <1>2, <1>6, <2>1
  <2>3. (s \o w) \o v = s \o (w \o v)
    BY <2>2, ConcatAssociates
  <2> QED BY <2>1, <2>3
<1>8. (t \o u) \o v = t \o (u \o v)
  BY <1>2, ConcatAssociates
<1>9. Cons(Close, <<>>) = v
  BY <1>1, ConsSingle
<1>10. Finish = u \o v
  BY <1>1, <1>9 DEF Finish, Cons
<1>11. Rest(0) = t \o (u \o v)
  BY <1>1, <1>10 DEF Rest, Cons
<1> QED BY <1>1, <1>5, <1>7, <1>8, <1>11

\* Whatever the first instruction x is, this is what its step makes of what
\* is to be done.
LEMMA FirstStep ==
  ASSUME Next, ~LexToken, NEW x, NEW rest, IsSequence(rest), todo = Cons(x, rest)
  PROVE  \/ todo' = rest
         \/ x.op = "if" /\ todo' \in {x.yes \o rest, x.no \o rest}
         \/ x.op \in {"while", "until"} /\ todo' = Append(x.body, [x EXCEPT !.last = pos]) \o rest
         \/ x.op = "member" /\ \E keyword : todo' = MemberOf(keyword) \o rest
         \/ x.op = "return" /\ ReturnEarly
<1>1. Head(todo) = x /\ Tail(todo) = rest
  BY ConsFacts
<1>2. Proceed(<<>>) => todo' = rest
  BY <1>1, ProceedNothing
<1>3. CASE \/ LexEOF \/ DoBump \/ DoEmitTrivia \/ DoStartNode \/ DoFinishNode
           \/ TakeCheckpoint \/ ChooseKind \/ WrapMarked
  BY <1>2, <1>3 DEF LexEOF, DoBump, DoEmitTrivia, DoStartNode, DoFinishNode, TakeCheckpoint, ChooseKind, WrapMarked
<1>4. CASE Choose
  <2>1. x.op = "if" /\ \E s \in {x.yes, x.no} : Proceed(s)
    BY <1>1, <1>4 DEF Choose, Doing
  <2>2. PICK s \in {x.yes, x.no} : Proceed(s)
    BY <2>1
  <2>3. todo' = s \o rest
    BY <1>1, <2>2, ProceedIs
  <2> QED BY <2>1, <2>2, <2>3
<1>5. CASE Iterate
  <2>1. x.op \in {"while", "until"}
    BY <1>1, <1>5 DEF Iterate, AtLoop, Doing
  <2>2. PICK s : s = Append(x.body, [x EXCEPT !.last = pos])
    OBVIOUS
  <2>3. Proceed(s) \/ Proceed(<<>>)
    BY <1>1, <1>5, <2>2 DEF Iterate
  <2>4. Proceed(s) => todo' = s \o rest
    BY <1>1, ProceedIs
  <2> QED BY <1>2, <2>1, <2>2, <2>3, <2>4
<1>6. CASE ReturnEarly
  BY <1>1, <1>6 DEF ReturnEarly, Doing
<1>7. CASE ParseMember
  <2>1. x.op = "member"
    BY <1>1, <1>7 DEF ParseMember, Doing
  <2>2. PICK keyword : Proceed(MemberOf(keyword))
    BY <1>7 DEF ParseMember
  <2>3. todo' = MemberOf(keyword) \o rest
    BY <1>1, <2>2, ProceedIs
  <2> QED BY <2>1, <2>3
<1> QED BY <1>3, <1>4, <1>5, <1>6, <1>7 DEF Next

\* What an instruction of ImportName makes is one of these again.
LEMMA ImportOneMakes ==
  ASSUME NEW x, ImportOne(x)
  PROVE  /\ x.op = "if" => Loose(x.yes) /\ Loose(x.no)
         /\ x.op \in {"while", "until"} => \A p : Loose(Append(x.body, [x EXCEPT !.last = p]))
         /\ x.op # "member"
<1>1. Loose(NameSegment)
  BY NamesPlain, PlainSettled DEF Settled
<1>2. Plain(Star)
  <2>1. PlainOne(Bump) /\ PlainOne(Opt("*", <<Bump>>))
    BY BumpPlain, PlainOptBump
  <2> QED BY <2>1, PlainOf2 DEF Star
<1>3. PlainOne(Opt("*", Star))
  BY <1>2, PlainOpt
<1>4. Calm(Opt("*", Star)) /\ Calm(Bump)
  BY <1>3, BumpPlain DEF Calm
<1>5. Loose(<<Opt("*", Star)>>)
  BY <1>4, SettledSingle
<1>6. ImportOne(ImportStep) /\ ImportOne(Return) /\ \A p : ImportOne(ImportSegments(p))
  BY DEF ImportOne
<1>7. \A y, z : (Calm(y) \/ ImportOne(y)) /\ (Calm(z) \/ ImportOne(z)) => Loose(<<y, z>>)
  <2> SUFFICES ASSUME NEW y, NEW z, Calm(y) \/ ImportOne(y), Calm(z) \/ ImportOne(z)
               PROVE  Loose(<<y, z>>)
    OBVIOUS
  <2>1. PICK s, t : s = <<y>> /\ t = <<z>> /\ Loose(s) /\ Loose(t)
    BY SettledSingle
  <2>2. Loose(s \o t)
    BY <2>1, SettledConcat
  <2>3. <<y, z>> = s \o t
    BY <2>1, PairIs
  <2> QED BY <2>2, <2>3
<1>8. CASE x = ImportStart
  <2>1. PICK s : s = <<ImportSegments(0)>> /\ Loose(s)
    BY <1>6, SettledSingle
  <2>2. Loose(NameSegment \o s)
    BY <1>1, <2>1, SettledConcat
  <2>3. x = [op |-> "if", class |-> "NAME", yes |-> NameSegment \o s, no |-> <<Opt("*", Star)>>]
    BY <1>8, <2>1 DEF ImportStart, If
  <2> QED BY <1>5, <2>2, <2>3
<1>9. CASE x = ImportStep
  <2>1. Loose(<<Opt("*", Star), Return>>)
    BY <1>4, <1>6, <1>7
  <2>2. x = [op |-> "if", class |-> "NAME", yes |-> NameSegment, no |-> <<Opt("*", Star), Return>>]
    BY <1>9 DEF ImportStep, If
  <2> QED BY <1>1, <2>1, <2>2
<1>10. CASE x = Return
  BY <1>10 DEF Return
<1>11. ASSUME NEW q, x = ImportSegments(q)
       PROVE  x.op = "while" /\ \A p : Loose(Append(x.body, [x EXCEPT !.last = p]))
  <2>1. PICK body : body = <<Bump, ImportStep>> /\ Loose(body)
    BY <1>4, <1>6, <1>7
  <2>2. x = [op |-> "while", class |-> "::", body |-> body, last |-> q]
    BY <1>11, <2>1 DEF ImportSegments
  <2>3. \A p : [x EXCEPT !.last = p] = ImportSegments(p)
    BY <2>1, <2>2 DEF ImportSegments
  <2>4. ASSUME NEW p
        PROVE  Loose(Append(body, ImportSegments(p)))
    <3>1. PICK s : s = <<ImportSegments(p)>> /\ Loose(s)
      BY <1>6, SettledSingle
    <3>2. Loose(body \o s)
      BY <2>1, <3>1, SettledConcat
    <3>3. IsSequence(body)
      BY <2>1 DEF Loose
    <3>4. Append(body, ImportSegments(p)) = body \o s
      BY <3>1, <3>3, AppendConcat
    <3> QED BY <3>2, <3>4
  <2> QED BY <2>2, <2>3, <2>4
<1> QED BY <1>8, <1>9, <1>10, <1>11 DEF ImportOne

\* What a calm one makes is settled.
LEMMA CalmMakes ==
  ASSUME NEW x, Calm(x)
  PROVE  /\ x.op = "if" => Settled(x.yes) /\ Settled(x.no)
         /\ x.op \in {"while", "until"} => \A p : Settled(Append(x.body, [x EXCEPT !.last = p]))
         /\ x.op # "return"
<1>1. CASE x.op \in Atoms \cup {"open", "close", "mark", "wrap"}
  BY <1>1 DEF Atoms
<1>2. CASE \E c, yes, no : Plain(yes) /\ Plain(no) /\ x = If(c, yes, no)
  <2>1. PICK c, yes, no : Plain(yes) /\ Plain(no) /\ x = If(c, yes, no)
    BY <1>2
  <2>2. x.op = "if" /\ x.yes = yes /\ x.no = no
    BY <2>1 DEF If
  <2> QED BY <2>1, <2>2, PlainSettled
<1>3. CASE \E c, body, p : Plain(body) /\ x \in Loops(c, body, p)
  <2>1. PICK c, body, q : Plain(body) /\ x \in Loops(c, body, q)
    BY <1>3
  <2>2. x.op \in {"while", "until"} /\ x.body = body
    BY <2>1 DEF Loops
  <2>3. ASSUME NEW p
        PROVE  Settled(Append(body, [x EXCEPT !.last = p]))
    <3>1. PICK y : y = [x EXCEPT !.last = p]
      OBVIOUS
    <3>2. y \in Loops(c, body, p)
      BY <2>1, <3>1 DEF Loops
    <3>3. Calm(y)
      BY <2>1, <3>2 DEF Calm, PlainOne
    <3>4. PICK s : s = <<y>> /\ Settled(s) /\ s # <<>>
      BY <3>3, SettledSingle, ConsSingle, ConsFacts, EmptyIsSequence
    <3>5. Settled(body) /\ IsSequence(body)
      BY <2>1, PlainSettled, PlainSequence
    <3>6. Settled(body \o s)
      BY <3>4, <3>5, SettledConcat DEF Settled
    <3>7. Append(body, y) = body \o s
      BY <3>4, <3>5, AppendConcat
    <3> QED BY <3>1, <3>6, <3>7
  <2> QED BY <2>2, <2>3
<1> QED BY <1>1, <1>2, <1>3 DEF Calm, PlainOne

\* Only EOF is taken for EOF.
LEMMA AtEOF ==
  ASSUME Balanced, Told
  PROVE  /\ Is(Current, "EOF") => Current = EOF
         /\ Current = EOF => BeforeSignificant = Len(tokens)
<1>1. PICK n : n = BeforeSignificant + 1
  OBVIOUS
<1>2. Current = IF n \in DOMAIN tokens THEN tokens[n] ELSE EOF
  BY <1>1 DEF Current, At
<1>3. ASSUME n \in DOMAIN tokens
      PROVE  Current.kind # "EOF" /\ Keyword(Current) # "EOF"
  BY <1>2, <1>3 DEF Told, NoEOF
<1>4. Is(Current, "EOF") => Current = EOF
  <2>1. ClassOf("EOF") = {"EOF"}
    BY DEF ClassOf, Class
  <2>2. Is(Current, "EOF") => Current.kind = "EOF" \/ Keyword(Current) = "EOF"
    BY <2>1 DEF Is
  <2> QED BY <1>2, <1>3, <2>2
<1>5. ASSUME Current = EOF
      PROVE  BeforeSignificant = Len(tokens)
  <2>1. n \notin DOMAIN tokens
    BY <1>3, <1>5 DEF EOF
  <2>2. PICK l \in Nat, p \in Nat : l = Len(tokens) /\ p = pos /\ p >= 1 /\ p <= l + 1 /\ DOMAIN tokens = 1 .. l
    BY SequenceFacts DEF Balanced, Reads
  <2>3. BeforeSignificant \in p - 1 .. l
    BY <2>2, BeforeSignificantFacts DEF Balanced
  <2>4. PICK q : q = BeforeSignificant
    OBVIOUS
  <2>5. q \in p - 1 .. l /\ n = q + 1 /\ n \notin 1 .. l
    BY <1>1, <2>1, <2>2, <2>3, <2>4
  <2>6. q = l
    BY <2>2, <2>5
  <2> QED BY <2>2, <2>4, <2>6
<1> QED BY <1>4, <1>5

\* A step in a function keeps to what SourceFile has still to do.
LEMMA InsideEnding ==
  ASSUME Balanced, Next, ~LexToken, NEW v, NEW p, Settled(v), v # <<>>, todo = v \o Rest(p)
  PROVE  \E w, q : Settled(w) /\ todo' = w \o Rest(q)
<1>1. PICK e : e = Rest(p) /\ IsSequence(e)
  BY RestSequence
<1>2. PICK x, w : x = Head(v) /\ w = Tail(v)
  OBVIOUS
<1>3. IsSequence(v) /\ IsSequence(w) /\ v = Cons(x, w)
  <2>1. IsSequence(v)
    BY DEF Settled, Loose
  <2> QED BY <1>2, <2>1, HeadAndTail DEF Cons
<1>4. Settled(w) /\ (Calm(x) \/ (ImportOne(x) /\ w # <<>>))
  BY <1>3, SettledTail
<1>5. PICK rest : rest = w \o e /\ IsSequence(rest)
  BY <1>1, <1>3, ConcatFacts
<1>6. todo = Cons(x, rest)
  <2>1. IsSequence(w) /\ IsSequence(e)
    BY <1>1, <1>3
  <2>2. Cons(x, w) \o e = Cons(x, w \o e)
    BY <2>1, ConsConcat
  <2> QED BY <1>1, <1>3, <1>5, <2>2
<1>7. ASSUME NEW s, Loose(s), Settled(s) \/ w # <<>>, todo' = s \o rest
      PROVE  \E u, q : Settled(u) /\ todo' = u \o Rest(q)
  <2>1. Settled(s \o w)
    BY <1>4, <1>7, SettledConcat DEF Settled
  <2>2. IsSequence(s)
    BY <1>7 DEF Loose
  <2>3. (s \o w) \o e = s \o (w \o e)
    BY SMTT(20), <1>1, <1>3, <2>2, ConcatAssociates
  <2> QED BY <1>1, <1>5, <1>7, <2>1, <2>3
<1>8. CASE todo' = rest
  BY <1>1, <1>4, <1>5, <1>8
<1>9. CASE x.op = "if" /\ todo' \in {x.yes \o rest, x.no \o rest}
  <2>1. /\ Loose(x.yes) /\ Loose(x.no)
        /\ (Settled(x.yes) /\ Settled(x.no)) \/ w # <<>>
    BY <1>4, <1>9, CalmMakes, ImportOneMakes DEF Settled
  <2> QED BY <1>7, <1>9, <2>1
<1>10. CASE x.op \in {"while", "until"} /\ todo' = Append(x.body, [x EXCEPT !.last = pos]) \o rest
  <2>1. PICK s : s = Append(x.body, [x EXCEPT !.last = pos])
    OBVIOUS
  <2>2. Loose(s) /\ (Settled(s) \/ w # <<>>)
    BY <1>4, <1>10, <2>1, CalmMakes, ImportOneMakes DEF Settled
  <2> QED BY <1>7, <1>10, <2>1, <2>2
<1>11. CASE x.op = "member" /\ \E keyword : todo' = MemberOf(keyword) \o rest
  <2>1. PICK keyword : todo' = MemberOf(keyword) \o rest
    BY <1>11
  <2>2. Settled(MemberOf(keyword))
    BY MemberPlain, PlainSettled
  <2> QED BY <1>7, <2>1, <2>2 DEF Settled
<1>12. CASE x.op = "return" /\ ReturnEarly
  <2>1. w # <<>>
    BY <1>4, <1>12, CalmMakes
  <2>2. PICK x1, y, c : IsSequence(c) /\ todo = Cons(x1, Cons(y, c)) /\ todo' = c
    <3>1. During
      BY <1>12, BeforeHead DEF Balanced, After, ReturnEarly, Doing
    <3> QED BY <1>12, <3>1, ReturnIs
  <2>3. PICK d : d = Cons(y, c) /\ IsSequence(d) /\ Tail(d) = c
    BY <2>2, ConsFacts
  <2>4. rest = d
    <3>1. Tail(todo) = rest
      BY <1>5, <1>6, ConsFacts
    <3>2. Tail(todo) = d
      BY <2>2, <2>3, ConsFacts
    <3> QED BY <3>1, <3>2
  <2>5. PICK x2, u : x2 = Head(w) /\ u = Tail(w)
    OBVIOUS
  <2>6. IsSequence(u) /\ w = Cons(x2, u)
    BY <1>3, <2>1, <2>5, HeadAndTail DEF Cons
  <2>7. Settled(u)
    BY <1>4, <2>6, SettledTail
  <2>8. rest = Cons(x2, u \o e)
    <3>1. IsSequence(u) /\ IsSequence(e)
      BY <1>1, <2>6
    <3>2. Cons(x2, u) \o e = Cons(x2, u \o e)
      BY <3>1, ConsConcat
    <3> QED BY <1>5, <2>6, <3>2
  <2>9. IsSequence(u \o e)
    BY <1>1, <2>6, ConcatFacts
  <2>10. Tail(rest) = u \o e
    BY <2>8, <2>9, ConsFacts
  <2> QED BY <1>1, <2>2, <2>3, <2>4, <2>7, <2>10
<1> QED BY <1>5, <1>6, <1>8, <1>9, <1>10, <1>11, <1>12, FirstStep

\* The loop of members reads one more, or is at EOF.
LEMMA MembersEnding ==
  ASSUME Balanced, Told, Next, NEW p, todo = Rest(p)
  PROVE  /\ UNCHANGED <<source, tokens, pos>>
         /\ \/ \E v, q : Settled(v) /\ todo' = v \o Rest(q)
            \/ todo' = Finish /\ Current = EOF
<1>1. Head(todo) = Members(p) /\ Tail(todo) = Finish
  BY RestSequence, ConsFacts DEF Rest
<1>2. PICK x : x = Members(p)
  OBVIOUS
<1>3. x = [op |-> "until", class |-> "EOF", body |-> <<Member>>, last |-> p]
  BY <1>2 DEF Members
<1>4. Head(todo).op = "until"
  BY <1>1, <1>2, <1>3
<1>5. Iterate
  BY <1>4 DEF Next, LexToken, LexEOF, Doing, DoBump, DoEmitTrivia, DoStartNode, DoFinishNode, Choose,
              ReturnEarly, ParseMember, TakeCheckpoint, ChooseKind, WrapMarked
<1>6. UNCHANGED <<source, tokens, pos>>
  BY <1>5 DEF Iterate, StandStill
<1>7. CASE GoesOn(x)
  <2>1. PICK q : q = pos
    OBVIOUS
  <2>2. [x EXCEPT !.last = q] = Members(q)
    BY <1>3 DEF Members
  <2>3. PICK m : m = <<Member>> /\ IsSequence(m)
    BY SingleFacts
  <2>4. PICK s : s = Append(m, Members(q))
    OBVIOUS
  <2>5. Proceed(s)
    BY <1>1, <1>2, <1>3, <1>5, <1>7, <2>1, <2>2, <2>3, <2>4 DEF Iterate
  <2>6. todo' = s \o Finish
    BY <1>1, <2>5, ProceedIs
  <2>7. PICK l : l = <<Members(q)>> /\ IsSequence(l)
    BY SingleFacts
  <2>8. s = m \o l
    BY <2>3, <2>4, <2>7, AppendConcat
  <2>9. (m \o l) \o Finish = m \o (l \o Finish)
    BY <2>3, <2>7, RestSequence, ConcatAssociates
  <2>10. Rest(q) = l \o Finish
    BY <2>7 DEF Rest, Cons
  <2>11. Settled(m)
    BY <2>3, PlainAtoms, PlainOf1, PlainSettled
  <2> QED BY <1>6, <2>6, <2>8, <2>9, <2>10, <2>11
<1>8. CASE ~GoesOn(x)
  <2>1. Proceed(<<>>)
    BY <1>1, <1>2, <1>5, <1>8 DEF Iterate
  <2>2. todo' = Finish
    BY <1>1, <2>1, RestSequence, ProceedNothing
  <2>3. Current = EOF \/ (Is(Current, "EOF") = (x.op = "while")) = FALSE
    BY <1>3, <1>8 DEF GoesOn
  <2>4. Current = EOF \/ Is(Current, "EOF")
    <3>1. (x.op = "while") = FALSE
      BY <1>3
    <3> QED BY <2>3, <3>1 DEF Is
  <2>5. Current = EOF
    BY <2>4, AtEOF
  <2> QED BY <1>6, <2>2, <2>5
<1> QED BY <1>7, <1>8

\* The rest of the source is unchanged after the lexer.
LEMMA SameUnlexed ==
  ASSUME Next, ~LexToken
  PROVE  Unlexed' = Unlexed /\ UNCHANGED <<source, tokens>>
<1>1. UNCHANGED <<source, tokens>>
  BY DEF Next, LexEOF, DoBump, DoEmitTrivia, Emit, DoStartNode, DoFinishNode, Choose, Iterate,
         ReturnEarly, ParseMember, TakeCheckpoint, ChooseKind, WrapMarked, StandStill
<1> QED BY <1>1 DEF Unlexed

\* Each step keeps the end of the parse where it is.
LEMMA EndingNext == Balanced /\ Told /\ Ending /\ [Next]_vars => Ending'
<1> SUFFICES ASSUME Balanced, Told, Ending, [Next]_vars
             PROVE  Ending'
  OBVIOUS
<1>1. CASE UNCHANGED vars
  BY <1>1 DEF vars, Ending, Unlexed, Current, AtEnd, BeforeSignificant
<1>2. ASSUME Next, todo = Cons(Lex, SourceFile)
      PROVE  Ending'
  <2>1. Head(todo) = Lex /\ Tail(todo) = SourceFile /\ IsSequence(SourceFile)
    BY <1>2, SourceFileHead, ConsFacts
  <2>2. Head(todo).op = "lex"
    BY <2>1 DEF Lex
  <2>3. CASE LexToken
    BY <1>2, <2>3 DEF LexToken, Ending
  <2>4. CASE LexEOF
    <3>1. todo' = SourceFile
      BY <2>1, <2>4, ProceedNothing DEF LexEOF
    <3>2. Unlexed' = <<>>
      BY <2>4 DEF LexEOF, StandStill, Unlexed
    <3>3. Settled(<<Open("SourceFile")>>)
      <4>1. Calm(Open("SourceFile"))
        BY DEF Calm, Open
      <4> QED BY <4>1, SettledSingle
    <3> QED BY <3>1, <3>2, <3>3, SourceFileRest DEF Ending
  <2> QED BY <1>2, <2>2, <2>3, <2>4
       DEF Next, Doing, DoBump, DoEmitTrivia, DoStartNode, DoFinishNode, Choose, AtLoop, Iterate,
           ReturnEarly, ParseMember, TakeCheckpoint, ChooseKind, WrapMarked
<1>3. ASSUME Next, Unlexed = <<>>
      PROVE  ~LexToken /\ Unlexed' = <<>>
  <2>1. ~LexToken
    BY <1>3 DEF LexToken
  <2> QED BY <1>3, <2>1, SameUnlexed
<1>4. ASSUME Next, Unlexed = <<>>, NEW v, NEW p, Settled(v), todo = v \o Rest(p)
      PROVE  Ending'
  <2>1. CASE v = <<>>
    <3>1. todo = Rest(p)
      BY <1>4, <2>1, RestSequence, ConcatEmpty
    <3>2. /\ UNCHANGED <<source, tokens, pos>>
          /\ (\E w, q : Settled(w) /\ todo' = w \o Rest(q)) \/ (todo' = Finish /\ Current = EOF)
      BY <1>4, <3>1, MembersEnding
    <3>3. Current' = Current
      BY <3>2 DEF Current, BeforeSignificant
    <3> QED BY <1>3, <1>4, <3>2, <3>3 DEF Ending
  <2>2. CASE v # <<>>
    <3>1. \E w, q : Settled(w) /\ todo' = w \o Rest(q)
      BY <1>3, <1>4, <2>2, InsideEnding
    <3> QED BY <1>3, <1>4, <3>1 DEF Ending
  <2> QED BY <2>1, <2>2
<1>5. ASSUME Next, Unlexed = <<>>, todo = Finish, Current = EOF
      PROVE  Ending'
  <2>1. Head(todo) = EmitTrivia /\ Tail(todo) = Cons(Close, <<>>)
    BY <1>5, RestSequence, ConsFacts DEF Finish
  <2>2. Head(todo).op = "trivia"
    BY <2>1 DEF EmitTrivia
  <2>3. DoEmitTrivia
    BY <1>5, <2>2 DEF Next, LexToken, LexEOF, Doing, DoBump, DoStartNode, DoFinishNode, Choose, AtLoop, Iterate,
           ReturnEarly, ParseMember, TakeCheckpoint, ChooseKind, WrapMarked
  <2>4. todo' = Cons(Close, <<>>)
    BY <2>1, <2>3, RestSequence, ProceedNothing DEF DoEmitTrivia
  <2>5. pos' = BeforeSignificant + 1 /\ UNCHANGED tokens
    BY <2>3 DEF DoEmitTrivia, Emit
  <2>6. AtEnd'
    BY <1>5, <2>5, AtEOF DEF AtEnd
  <2> QED BY <1>3, <1>5, <2>4, <2>6 DEF Ending
<1>6. ASSUME Next, Unlexed = <<>>, todo = Cons(Close, <<>>), AtEnd
      PROVE  Ending'
  <2>1. Head(todo) = Close /\ Tail(todo) = <<>>
    BY <1>6, EmptyIsSequence, ConsFacts
  <2>2. Head(todo).op = "close"
    BY <2>1 DEF Close
  <2>3. DoFinishNode
    BY <1>6, <2>2 DEF Next, LexToken, LexEOF, Doing, DoBump, DoEmitTrivia, DoStartNode, Choose, AtLoop, Iterate,
           ReturnEarly, ParseMember, TakeCheckpoint, ChooseKind, WrapMarked
  <2>4. todo' = <<>>
    BY <2>1, <2>3, EmptyIsSequence, ProceedNothing DEF DoFinishNode
  <2>5. AtEnd'
    BY <1>6, <2>3 DEF AtEnd, DoFinishNode, StandStill
  <2> QED BY <1>3, <1>6, <2>4, <2>5 DEF Ending
<1>7. ~(Next /\ todo = <<>>)
  BY DEF Next, LexToken, LexEOF, Doing, DoBump, DoEmitTrivia, DoStartNode, DoFinishNode, Choose, AtLoop, Iterate,
         ReturnEarly, ParseMember, TakeCheckpoint, ChooseKind, WrapMarked
<1> QED BY <1>1, <1>2, <1>4, <1>5, <1>6, <1>7 DEF Ending

\* At the beginning the source is to be lexed and parsed.
LEMMA EndingInit == Init => Ending
BY DEF Init, Ending, Cons

\* In the end the root is the only child of the base.
LEMMA RootText ==
  ASSUME Sound(b), MayFinish(b)
  PROVE  StackText(b) = Texts(b)[Root]
<1>1. IsArena(b) /\ Frames(b, b.stack) /\ Len(b.stack) = 1 /\ IsStack(b.stack)
  BY DEF Sound, MayFinish, IsBuilder
<1>2. PICK cs : cs = b.stack[1].children /\ Len(cs) = 1 /\ ~cs[1].leaf /\ Root = cs[1].at
  BY <1>1 DEF MayFinish, Top, Root
<1>3. 1 \in DOMAIN b.stack /\ IsSequence(b.stack)
  <2>1. IsSequence(b.stack)
    BY <1>1 DEF IsStack
  <2>2. DOMAIN b.stack = 1 .. 1
    BY <1>1, <2>1, SequenceFacts
  <2> QED BY <2>1, <2>2
<1>4. Children(b, cs)
  BY <1>1, <1>2, <1>3 DEF Frames
<1>5. PICK c : c = cs[1] /\ cs = <<c>>
  <2>1. PICK g : g = <<cs[1]>> /\ IsSequence(g) /\ Len(g) = 1 /\ g[1] = cs[1]
    BY SingleFacts
  <2>2. IsSequence(cs)
    BY <1>4 DEF Children, ChildrenOf
  <2>3. \A i \in 1 .. 1 : i = 1
    OBVIOUS
  <2>4. cs = g
    BY <1>2, <2>1, <2>2, <2>3, SameSequence
  <2> QED BY <2>1, <2>4
<1>6. ChildOf(b, c, Len(b.nodes))
  BY <1>4, <1>5, SingleFacts DEF Children, ChildrenOf
<1>7. ChildrenText(b, cs) = Texts(b)[Root]
  <2>1. ChildrenText(b, <<c>>) = Piece(b, Texts(b), c)
    BY <1>1, <1>6, ChildTextIs
  <2>2. Piece(b, Texts(b), c) = Texts(b)[c.at]
    BY <1>2, <1>5 DEF Piece
  <2> QED BY <1>2, <1>5, <2>1, <2>2
<1>8. PICK l : l = Layout(b, b.stack)
  OBVIOUS
<1>9. /\ IsSequence(l) /\ Len(l) = 1 /\ l[1] = ChildrenText(b, cs) /\ IsSequence(l[1])
  <2>1. /\ IsSequence(l) /\ Len(l) = 1
        /\ \A i \in 1 .. 1 : l[i] = ChildrenText(b, b.stack[i].children)
        /\ \A i \in 1 .. 1 : IsSequence(l[i])
    BY <1>1, <1>8, LayoutFacts
  <2>2. 1 \in 1 .. 1
    OBVIOUS
  <2> QED BY <1>2, <2>1, <2>2
<1>10. l = <<l[1]>>
  <2>1. PICK g : g = <<l[1]>> /\ IsSequence(g) /\ Len(g) = 1 /\ g[1] = l[1]
    BY SingleFacts
  <2>2. \A i \in 1 .. 1 : i = 1
    OBVIOUS
  <2> QED BY <1>9, <2>1, <2>2, SameSequence
<1>11. FlattenSeq(l) = l[1]
  BY <1>9, <1>10, FlattenSingle
<1> QED BY <1>7, <1>8, <1>9, <1>11 DEF StackText

\* The invariants are why nothing is lost.
LEMMA ToldIsLossless == Balanced /\ Told /\ Ending => Lossless
<1> SUFFICES ASSUME Balanced, Told, Ending
             PROVE  Lossless
  OBVIOUS
<1>1. FlattenSeq([i \in DOMAIN b.stack |-> ChildrenText(b, b.stack[i].children)])
        = TextOf(SubSeq(tokens, 1, pos - 1))
  BY DEF Told, StackText, Layout
<1>2. TextOf(tokens) \o Unlexed = source
  <2>1. PICK k \in 0 .. Len(source) : TextOf(tokens) = SubSeq(source, 1, k)
    BY DEF Told, Lexed
  <2>2. Len(TextOf(tokens)) = k
    BY <2>1, PrefixFacts DEF Told, IsSource
  <2>3. source = SubSeq(source, 1, k) \o SubSeq(source, k + 1, Len(source))
    BY SplitAt DEF Told, IsSource
  <2> QED BY <2>1, <2>2, <2>3 DEF Unlexed
<1>3. ASSUME Parsed
      PROVE  Texts(b)[Root] = source
  <2>1. todo = <<>>
    BY <1>3 DEF Parsed
  <2>2. MayFinish(b)
    BY <1>3, BalancedNeverPanics DEF NeverPanics
  <2>3. Unlexed = <<>> /\ AtEnd
    <3>1. todo # Cons(Lex, SourceFile) /\ todo # Finish /\ todo # Cons(Close, <<>>)
      BY <2>1, SourceFileHead, RestSequence, EmptyIsSequence, ConsFacts DEF Finish
    <3>2. ASSUME NEW v, NEW p, Settled(v), todo = v \o Rest(p)
          PROVE  FALSE
      <4>1. IsSequence(v) /\ IsSequence(Rest(p)) /\ Rest(p) # <<>>
        BY <3>2, RestSequence, ConsFacts DEF Settled, Loose, Rest
      <4>2. PICK e : e = Rest(p) /\ Len(e) \in Nat /\ Len(e) # 0 /\ Len(v) \in Nat
        BY <4>1, SequenceFacts, OnlyEmpty
      <4>3. Len(todo) = Len(v) + Len(e)
        BY <3>2, <4>1, <4>2, ConcatFacts
      <4>4. PICK n, m \in Nat : n = Len(v) /\ m = Len(e) /\ m # 0
        BY <4>2
      <4>5. n + m = 0
        BY <2>1, <4>3, <4>4, EmptyIsSequence
      <4> QED BY <4>4, <4>5
    <3> QED BY <3>1, <3>2 DEF Ending
  <2>4. SubSeq(tokens, 1, pos - 1) = tokens
    <3>1. PICK l \in Nat : l = Len(tokens) /\ IsSequence(tokens)
      BY SequenceFacts DEF Balanced, Reads
    <3>2. pos - 1 = l /\ l \in 0 .. l
      BY <2>3, <3>1 DEF AtEnd
    <3>3. PICK s : s = SubSeq(tokens, 1, l)
      OBVIOUS
    <3>4. IsSequence(s) /\ Len(s) = l /\ \A i \in 1 .. l : s[i] = tokens[i]
      BY <3>1, <3>2, <3>3, PrefixFacts
    <3>5. s = tokens
      BY <3>1, <3>4, SameSequence
    <3> QED BY <3>2, <3>3, <3>5
  <2>5. TextOf(tokens) = source
    <3>1. IsSequence(TextOf(tokens))
      BY TextOfSequence DEF Told
    <3>2. TextOf(tokens) \o <<>> = TextOf(tokens)
      BY <3>1, ConcatEmpty
    <3> QED BY <1>2, <2>3, <3>2
  <2> QED BY <2>2, <2>4, <2>5, RootText DEF Told
<1> QED BY <1>1, <1>2, <1>3 DEF Lossless

\* Whatever the source, nothing of it is lost and nothing added: the text
\* of the nodes is the source up to where the parser stands, and in the end
\* that of the root is the source (the contract of Parse, parser.go).
THEOREM NothingIsLost == Spec => []Lossless
<1>1. Init => Balanced /\ Told /\ Ending
  BY BalancedInit, ToldInit, EndingInit
<1>2. Balanced /\ Told /\ Ending /\ [Next]_vars => (Balanced /\ Told /\ Ending)'
  BY BalancedNext, ToldNext, EndingNext
<1>3. Balanced /\ Told /\ Ending => Lossless
  BY ToldIsLossless
<1> QED BY <1>1, <1>2, <1>3, PTL DEF Spec
-----------------------------------------------------------------------------
(***************************************************************************)
(* The ranges of cursors.  Nodes are as wide as their texts are long: so   *)
(* that a cursor that stands where its text does has children that do.     *)
(***************************************************************************)
IsSum(g, x, n, cs) ==
  g = [S \in SUBSET (1 .. n) |-> IF S = {} THEN 0 ELSE g[S \ {Max(S)}] + Width(x, cs[Max(S)])]

\* The function of the fold exists.
LEMMA SumExists ==
  ASSUME NEW x, NEW cs
  PROVE  \A n \in Nat : \E g : IsSum(g, x, n, cs)
<1> DEFINE T == {n \in Nat : ~\E g : IsSum(g, x, n, cs)}
<1> SUFFICES ASSUME T # {}
             PROVE  FALSE
  OBVIOUS
<1>1. T \in SUBSET Nat
  OBVIOUS
<1>2. PICK m \in T : \A n \in T : m <= n
  BY <1>1, LeastElement
<1>3. m \in Nat /\ ~\E g : IsSum(g, x, m, cs)
  OBVIOUS
<1>4. CASE m = 0
  <2> DEFINE g == [S \in SUBSET (1 .. 0) |-> 0]
  <2>1. \A S \in SUBSET (1 .. 0) : S = {}
    OBVIOUS
  <2>2. IsSum(g, x, 0, cs)
    BY <2>1 DEF IsSum
  <2> QED BY <1>3, <1>4, <2>2
<1>5. CASE m # 0
  <2>1. m - 1 \in Nat /\ ~(m <= m - 1)
    BY <1>3, <1>5
  <2>2. m - 1 \notin T
    BY <1>2, <2>1
  <2>3. PICK k \in Nat : k = m - 1 /\ \E g : IsSum(g, x, k, cs)
    BY <2>1, <2>2
  <2>4. PICK h : IsSum(h, x, k, cs)
    BY <2>3
  <2>5. m = k + 1
    BY <1>3, <2>3
  <2> DEFINE g == [S \in SUBSET (1 .. m) |-> IF m \in S THEN h[S \ {m}] + Width(x, cs[m]) ELSE h[S]]
  <2>6. ASSUME NEW S \in SUBSET (1 .. m)
        PROVE  g[S] = IF S = {} THEN 0 ELSE g[S \ {Max(S)}] + Width(x, cs[Max(S)])
    <3>1. CASE m \in S
      <4>1. Max(S) = m
        <5>1. S \in SUBSET Int /\ \A i \in S : i <= m
          BY <1>3
        <5> QED BY <3>1, <5>1, GreatestIs
      <4>2. S \ {m} \in SUBSET (1 .. m) /\ m \notin S \ {m}
        OBVIOUS
      <4>3. g[S \ {m}] = h[S \ {m}]
        BY <4>2
      <4>4. g[S] = h[S \ {m}] + Width(x, cs[m])
        BY <3>1
      <4> QED BY <3>1, <4>1, <4>3, <4>4
    <3>2. CASE m \notin S
      <4>1. S \in SUBSET (1 .. k)
        <5>1. \A i \in S : i \in 1 .. m /\ i # m
          BY <3>2
        <5>2. \A i \in 1 .. m : i # m => i \in 1 .. k
          BY <2>5
        <5> QED BY <5>1, <5>2
      <4>2. h[S] = IF S = {} THEN 0 ELSE h[S \ {Max(S)}] + Width(x, cs[Max(S)])
        BY <2>4, <4>1 DEF IsSum
      <4>3. S \ {Max(S)} \in SUBSET (1 .. m) /\ m \notin S \ {Max(S)}
        BY <3>2
      <4>4. g[S] = h[S] /\ g[S \ {Max(S)}] = h[S \ {Max(S)}]
        BY <3>2, <4>3
      <4> QED BY <4>2, <4>4
    <3> QED BY <3>1, <3>2
  <2>7. IsSum(g, x, m, cs)
    <3>1. g = [S \in SUBSET (1 .. m) |-> g[S]]
      OBVIOUS
    <3> HIDE DEF g
    <3> QED BY <2>6, <3>1 DEF IsSum
  <2> QED BY <1>3, <2>7
<1> QED BY <1>4, <1>5

\* The width up to each child.
LEMMA TotalIsIteration ==
  ASSUME NEW x, NEW cs, IsSequence(cs)
  PROVE  \E f : /\ f[0] = 0 /\ \A i \in 1 .. Len(cs) : f[i] = f[i - 1] + Width(x, cs[i])
                /\ TotalWidth(x, cs) = f[Len(cs)]
<1>1. PICK n \in Nat : n = Len(cs) /\ DOMAIN cs = 1 .. n
  BY SequenceFacts
<1> DEFINE g == CHOOSE g : IsSum(g, x, n, cs)
<1>2. IsSum(g, x, n, cs)
  BY SumExists
<1>3. TotalWidth(x, cs) = g[1 .. n]
  BY <1>1 DEF TotalWidth, FoldLeft, MapThenFoldSet, IsSum
<1> HIDE DEF g
<1> DEFINE f == [i \in 0 .. n |-> g[1 .. i]]
<1>4. f[0] = 0
  <2>1. 1 .. 0 = {} /\ {} \in SUBSET (1 .. n)
    OBVIOUS
  <2>2. g[{}] = 0
    BY <1>2, <2>1 DEF IsSum
  <2> QED BY <2>1, <2>2
<1>5. ASSUME NEW i \in 1 .. n
      PROVE  f[i] = f[i - 1] + Width(x, cs[i])
  <2>0. i \in 1 .. i
    BY <1>1
  <2>1. i - 1 \in 0 .. n /\ i \in 0 .. n /\ 1 .. i # {} /\ i \in Int
    <3>1. i - 1 \in 0 .. n /\ i \in 0 .. n /\ i \in Int
      BY <1>1
    <3> QED BY <2>0, <3>1
  <2>2. 1 .. i \in SUBSET (1 .. n) /\ 1 .. i \in SUBSET Int /\ i \in 1 .. i /\ \A j \in 1 .. i : j <= i
    BY <1>1, <2>1
  <2>3. Max(1 .. i) = i
    BY <2>2, GreatestIs
  <2>4. (1 .. i) \ {i} = 1 .. i - 1
    BY <1>1, <2>1
  <2>5. g[1 .. i] = g[(1 .. i) \ {Max(1 .. i)}] + Width(x, cs[Max(1 .. i)])
    BY <1>2, <2>1, <2>2 DEF IsSum
  <2>6. f[i] = g[1 .. i] /\ f[i - 1] = g[1 .. i - 1]
    BY <2>1
  <2> QED BY <2>3, <2>4, <2>5, <2>6
<1>6. f[n] = g[1 .. n]
  OBVIOUS
<1> HIDE DEF f
<1> QED BY <1>1, <1>3, <1>4, <1>5, <1>6

\* Nodes are as wide as their texts are long.
Wide(x) == \A i \in 1 .. Len(x.nodes) : x.nodes[i].width = Len(Texts(x)[i])

\* So is a child of one.
LEMMA ChildWidthIs ==
  ASSUME NEW x, IsArena(x), Wide(x), NEW c, ChildOf(x, c, Len(x.nodes))
  PROVE  Width(x, c) = Len(Piece(x, Texts(x), c)) /\ IsSequence(Piece(x, Texts(x), c))
<1>1. CASE c.leaf
  BY <1>1 DEF ChildOf, IsArena, Piece, Width
<1>2. CASE ~c.leaf
  BY <1>2, TextsAreSequences DEF ChildOf, Piece, Width, Wide
<1> QED BY <1>1, <1>2

\* The first children, one more at a time.
LEMMA FirstChildren ==
  ASSUME NEW x, IsArena(x), NEW cs, Children(x, cs), NEW k \in Nat, k + 1 <= Len(cs)
  PROVE  /\ Children(x, SubSeq(cs, 1, k)) /\ ChildOf(x, cs[k + 1], Len(x.nodes))
         /\ ChildrenText(x, SubSeq(cs, 1, k + 1))
              = ChildrenText(x, SubSeq(cs, 1, k)) \o Piece(x, Texts(x), cs[k + 1])
<1>1. PICK l \in Nat : l = Len(cs) /\ DOMAIN cs = 1 .. l /\ IsSequence(cs)
  BY SequenceFacts DEF Children, ChildrenOf
<1>2. PICK m \in Nat : m = k + 1 /\ m \in 1 .. l /\ m \in 0 .. Len(cs) /\ k \in 0 .. Len(cs)
  BY <1>1
<1>3. PICK p : p = SubSeq(cs, 1, k) /\ IsSequence(p) /\ Len(p) = k /\ \A i \in 1 .. k : p[i] = cs[i]
  BY ZenonT(40), <1>1, <1>2, PrefixFacts
<1>4. PICK q : q = SubSeq(cs, 1, m) /\ IsSequence(q) /\ Len(q) = m /\ \A i \in 1 .. m : q[i] = cs[i]
  <2>1. m \in 0 .. Len(cs) /\ IsSequence(cs)
    BY <1>1, <1>2
  <2> QED BY ZenonT(40), <2>1, PrefixFacts
<1>5. PICK c : c = cs[m] /\ ChildOf(x, c, Len(x.nodes))
  BY <1>1, <1>2 DEF Children, ChildrenOf
<1>6. PICK r : r = Append(p, c) /\ r = p \o <<c>>
  BY <1>3, AppendConcat
<1>7. /\ IsSequence(r) /\ Len(r) = m /\ \A i \in 1 .. k : r[i] = p[i]
      /\ r[m] = c
  BY <1>2, <1>3, <1>6, AppendFacts
<1>8. r = q
  <2>1. \A i \in 1 .. m : i \in 1 .. k \/ i = m
    BY <1>2
  <2>2. m \in 1 .. m
    BY <1>2
  <2>3. \A i \in 1 .. m : r[i] = q[i]
    BY <1>3, <1>4, <1>5, <1>7, <2>1, <2>2
  <2> QED BY <1>4, <1>7, <2>3, SameSequence
<1>9. Children(x, p)
  <2>1. p = SubSeq(cs, 1, k) /\ cs = p \o SubSeq(cs, k + 1, Len(cs)) /\ IsSequence(SubSeq(cs, k + 1, Len(cs)))
    BY <1>1, <1>2, <1>3, SplitAt
  <2> QED BY <1>3, <2>1, ChildrenParts DEF Children
<1>10. Children(x, <<c>>) /\ ChildrenText(x, <<c>>) = Piece(x, Texts(x), c)
  BY <1>5, ChildTextIs
<1>11. ChildrenText(x, p \o <<c>>) = ChildrenText(x, p) \o ChildrenText(x, <<c>>)
  BY <1>9, <1>10, ChildrenTextConcat
<1> QED BY <1>2, <1>3, <1>4, <1>5, <1>6, <1>8, <1>9, <1>10, <1>11

\* The width of children is the length of their text.
LEMMA TotalWidthIs ==
  ASSUME NEW x, IsArena(x), Wide(x), NEW cs, Children(x, cs)
  PROVE  TotalWidth(x, cs) = Len(ChildrenText(x, cs))
<1>1. PICK l \in Nat : l = Len(cs) /\ DOMAIN cs = 1 .. l /\ IsSequence(cs)
  BY SequenceFacts DEF Children, ChildrenOf
<1>2. PICK f : /\ f[0] = 0 /\ \A i \in 1 .. l : f[i] = f[i - 1] + Width(x, cs[i])
               /\ TotalWidth(x, cs) = f[l]
  BY <1>1, TotalIsIteration
<1> DEFINE Measured(i) == f[i] = Len(ChildrenText(x, SubSeq(cs, 1, i)))
           T == {i \in 0 .. l : ~Measured(i)}
<1>3. Measured(0)
  <2>1. 0 \in 0 .. Len(cs)
    BY <1>1
  <2>2. SubSeq(cs, 1, 0) = <<>>
    BY <1>1, <2>1, PrefixFacts, OnlyEmpty
  <2> QED BY <1>2, <2>2, NoChildren, EmptyIsSequence
<1>4. T = {}
  <2> SUFFICES ASSUME T # {}
               PROVE  FALSE
    OBVIOUS
  <2>1. T \in SUBSET Nat
    OBVIOUS
  <2>2. PICK i \in T : \A j \in T : i <= j
    BY <2>1, LeastElement
  <2>3. i # 0 /\ i \in 0 .. l /\ ~Measured(i)
    BY <1>3
  <2>4. PICK j \in Nat : i = j + 1 /\ j = i - 1 /\ i \in 1 .. l /\ j \in 0 .. l /\ ~(i <= j) /\ j + 1 <= l
    <3>1. i - 1 \in Nat /\ i = i - 1 + 1 /\ i \in 1 .. l /\ i - 1 \in 0 .. l /\ ~(i <= i - 1) /\ i - 1 + 1 <= l
      BY <2>3
    <3> QED BY <3>1
  <2>5. Measured(j)
    BY <2>2, <2>4
  <2> HIDE DEF T
  <2>6. PICK p, q, c : p = SubSeq(cs, 1, j) /\ q = SubSeq(cs, 1, i) /\ c = cs[i]
    OBVIOUS
  <2>7. /\ Children(x, p) /\ ChildOf(x, c, Len(x.nodes))
        /\ ChildrenText(x, q) = ChildrenText(x, p) \o Piece(x, Texts(x), c)
    BY <1>1, <2>4, <2>6, FirstChildren
  <2>8. PICK s, t : s = ChildrenText(x, p) /\ t = Piece(x, Texts(x), c)
    OBVIOUS
  <2>9. IsSequence(s) /\ IsSequence(t) /\ Width(x, c) = Len(t)
    BY <2>7, <2>8, ChildrenTextSequence, ChildWidthIs
  <2>10. Len(s \o t) = Len(s) + Len(t)
    BY <2>9, ConcatFacts
  <2>11. f[i] = f[j] + Width(x, c) /\ f[j] = Len(s)
    BY <1>2, <2>4, <2>5, <2>6, <2>8
  <2> QED BY <2>3, <2>6, <2>7, <2>8, <2>9, <2>10, <2>11
<1>5. Measured(l)
  <2>1. l \in 0 .. l
    OBVIOUS
  <2> QED BY <1>4, <2>1
<1>6. SubSeq(cs, 1, l) = cs
  <2>1. PICK p : p = SubSeq(cs, 1, l)
    OBVIOUS
  <2>2. IsSequence(p) /\ Len(p) = l /\ \A i \in 1 .. l : p[i] = cs[i]
    <3>1. l \in 0 .. Len(cs)
      BY <1>1
    <3> QED BY ZenonT(40), <1>1, <2>1, <3>1, PrefixFacts
  <2> QED BY <1>1, <2>1, <2>2, SameSequence
<1> QED BY <1>2, <1>5, <1>6

\* Texts of nodes do not change, and what is added is as wide as it is long.
LEMMA WideMore ==
  ASSUME NEW x, NEW y, IsArena(x), IsArena(y), Extends(x, y), Wide(x), NEW cs, Children(x, cs),
         \A i \in DOMAIN y.nodes : \/ i \in DOMAIN x.nodes
                                   \/ y.nodes[i].children = cs /\ y.nodes[i].width = TotalWidth(x, cs)
  PROVE  Wide(y)
<1>1. DOMAIN x.nodes = 1 .. Len(x.nodes) /\ DOMAIN y.nodes = 1 .. Len(y.nodes)
  BY SequenceFacts DEF IsArena
<1>2. ASSUME NEW i \in 1 .. Len(y.nodes)
      PROVE  y.nodes[i].width = Len(Texts(y)[i])
  <2>1. CASE i \in DOMAIN x.nodes
    <3>1. y.nodes[i] = x.nodes[i] /\ Texts(x)[i] = Texts(y)[i]
      BY <1>1, <2>1, TextsAgree DEF Extends
    <3> QED BY <1>1, <2>1, <3>1 DEF Wide
  <2>2. CASE i \notin DOMAIN x.nodes
    <3>1. y.nodes[i].children = cs /\ y.nodes[i].width = TotalWidth(x, cs)
      BY <1>1, <1>2, <2>2
    <3>2. PICK g : g = Texts(y)
      OBVIOUS
    <3>3. IsText(y, g, Len(y.nodes))
      BY <3>2, TextsIs
    <3>4. g[i] = FlattenSeq(Pieces(y, g, cs))
      BY <1>2, <3>1, <3>3 DEF IsText
    <3>5. ChildrenText(y, cs) = g[i]
      BY <3>2, <3>4, ChildrenTextIs
    <3>6. ChildrenText(y, cs) = ChildrenText(x, cs)
      BY ChildrenKeep
    <3> QED BY <3>1, <3>2, <3>5, <3>6, TotalWidthIs
  <2> QED BY <2>1, <2>2
<1> QED BY <1>2 DEF Wide

\* The builder with other frames, and more leaves.
LEMMA WideSame ==
  ASSUME NEW x, NEW y, IsArena(x), IsArena(y), Extends(x, y), Wide(x), y.nodes = x.nodes
  PROVE  Wide(y)
<1>1. Children(x, <<>>)
  BY NoChildren
<1> QED BY <1>1, WideMore

\* A token.
LEMMA TokenWide ==
  ASSUME NEW x, NEW t, Sound(x), Len(x.stack) >= 1, IsSequence(t.text), Wide(x)
  PROVE  Wide(Token(x, t))
<1>1. PICK leaves : leaves = Intern(x.leaves, t)
  OBVIOUS
<1>2. PICK y : y = Token(x, t)
  OBVIOUS
<1>3. y.leaves = leaves /\ y.nodes = x.nodes
  <2>1. PICK stack : y = [x EXCEPT !.leaves = leaves, !.stack = stack]
    BY <1>1, <1>2 DEF Token
  <2>2. y = [leaves |-> leaves, nodes |-> x.nodes, stack |-> stack]
    BY <2>1 DEF Sound, IsBuilder
  <2> QED BY <2>2
<1>4. Len(x.leaves) <= Len(leaves) /\ \A i \in DOMAIN x.leaves : leaves[i] = x.leaves[i]
  BY <1>1, InternFacts DEF Sound, IsArena
<1>5. Extends(x, y)
  <2>1. Len(x.nodes) \in Nat
    BY SequenceFacts DEF Sound, IsArena
  <2> QED BY <1>3, <1>4, <2>1 DEF Extends
<1>6. IsArena(y)
  BY <1>2, TokenText DEF Sound
<1> QED BY <1>2, <1>3, <1>5, <1>6, WideSame DEF Sound

\* The tokens that are emitted.
LEMMA EmitWide ==
  ASSUME NEW x, NEW ts, AreTokens(ts), Sound(x), Len(x.stack) >= 1, Wide(x)
  PROVE  Wide(Emitted(x, ts))
<1>1. PICK l \in Nat : l = Len(ts) /\ DOMAIN ts = 1 .. l /\ IsSequence(ts)
  BY SequenceFacts DEF AreTokens
<1>2. PICK f : f[0] = x /\ (\A i \in 1 .. l : f[i] = Token(f[i - 1], ts[i])) /\ Emitted(x, ts) = f[l]
  <2>1. PICK f : /\ f[0] = x /\ \A i \in 1 .. Len(ts) : f[i] = Token(f[i - 1], ts[i])
                 /\ Emitted(x, ts) = f[Len(ts)]
    BY <1>1, FoldIsIteration
  <2> QED BY <1>1, <2>1
<1> DEFINE Good(i) == Sound(f[i]) /\ Len(f[i].stack) >= 1 /\ Wide(f[i])
           T == {i \in 0 .. l : ~Good(i)}
<1>3. Good(0)
  BY <1>2
<1>4. T = {}
  <2> SUFFICES ASSUME T # {}
               PROVE  FALSE
    OBVIOUS
  <2>1. T \in SUBSET Nat
    OBVIOUS
  <2>2. PICK i \in T : \A j \in T : i <= j
    BY <2>1, LeastElement
  <2>3. i # 0 /\ i \in 0 .. l /\ ~Good(i)
    BY <1>3
  <2>4. i \in 1 .. l /\ i - 1 \in 0 .. l /\ ~(i <= i - 1)
    BY <2>3
  <2>5. Good(i - 1)
    BY <2>2, <2>4
  <2>6. PICK y, t : y = f[i - 1] /\ t = ts[i]
    OBVIOUS
  <2>7. Sound(y) /\ Len(y.stack) >= 1 /\ Wide(y) /\ IsSequence(t.text)
    BY <1>1, <2>4, <2>5, <2>6 DEF AreTokens
  <2> HIDE DEF T
  <2>8. f[i] = Token(y, t)
    BY <1>2, <2>4, <2>6
  <2>9. Sound(Token(y, t)) /\ Wide(Token(y, t))
    BY <2>7, TokenText, TokenWide
  <2>10. Len(Token(y, t).stack) >= 1
    <3>1. Grows(y.stack, Token(y, t).stack)
      BY <2>7, TokenFacts DEF Sound
    <3> QED BY <2>7, <3>1 DEF Grows
  <2> QED BY <2>3, <2>8, <2>9, <2>10
<1>5. Good(l)
  <2>1. l \in 0 .. l
    OBVIOUS
  <2> QED BY <1>4, <2>1
<1> QED BY <1>2, <1>5

\* A node is as wide as its children are.
LEMMA FinishNodeWide ==
  ASSUME NEW x, Sound(x), Len(x.stack) >= 2, Wide(x)
  PROVE  Wide(FinishNode(x))
<1>1. PICK cs, node, nodes : /\ cs = Top(x).children
                             /\ node = [kind |-> Top(x).kind, children |-> cs, width |-> TotalWidth(x, cs)]
                             /\ nodes = Intern(x.nodes, node)
  OBVIOUS
<1>2. PICK y : y = FinishNode(x)
  OBVIOUS
<1>3. y.leaves = x.leaves /\ y.nodes = nodes
  <2>1. PICK stack : y = [x EXCEPT !.nodes = nodes, !.stack = stack]
    BY <1>1, <1>2 DEF FinishNode
  <2>2. y = [leaves |-> x.leaves, nodes |-> nodes, stack |-> stack]
    BY <2>1 DEF Sound, IsBuilder
  <2> QED BY <2>2
<1>4. /\ Len(x.nodes) <= Len(nodes) /\ \A i \in DOMAIN x.nodes : nodes[i] = x.nodes[i]
      /\ \A i \in DOMAIN nodes : i \in DOMAIN x.nodes \/ nodes[i] = node
  BY <1>1, InternFacts DEF Sound, IsArena
<1>5. Extends(x, y)
  <2>1. Len(x.leaves) \in Nat
    BY SequenceFacts DEF Sound, IsArena
  <2> QED BY <1>3, <1>4, <2>1 DEF Extends
<1>6. IsArena(y)
  BY <1>2, FinishNodeText DEF Sound
<1>7. Children(x, cs)
  <2>1. Len(x.stack) \in Nat /\ DOMAIN x.stack = 1 .. Len(x.stack)
    BY SequenceFacts DEF Sound, Frames
  <2>2. Len(x.stack) \in DOMAIN x.stack
    BY <2>1
  <2> QED BY <1>1, <2>2 DEF Sound, Frames, Top
<1>8. node.children = cs /\ node.width = TotalWidth(x, cs)
  BY <1>1
<1>9. \A i \in DOMAIN y.nodes : \/ i \in DOMAIN x.nodes
                                \/ y.nodes[i].children = cs /\ y.nodes[i].width = TotalWidth(x, cs)
  BY <1>3, <1>4, <1>8
<1>10. IsArena(x)
  BY DEF Sound
<1> QED BY <1>2, <1>5, <1>6, <1>7, <1>9, <1>10, WideMore

\* What is emitted are tokens.
LEMMA PartsAreTokens ==
  ASSUME NEW ts, AreTokens(ts), NEW p \in 1 .. Len(ts) + 1, NEW n \in p - 1 .. Len(ts)
  PROVE  AreTokens(SubSeq(ts, p, n))
<1>1. PICK k \in Nat : k = Len(ts) /\ DOMAIN ts = 1 .. k /\ IsSequence(ts)
  BY SequenceFacts DEF AreTokens
<1>2. PICK l \in Nat : l = n - p + 1 /\ \A i \in 1 .. l : p + i - 1 \in 1 .. k
  <2>1. n - p + 1 \in Nat /\ \A i \in 1 .. n - p + 1 : p + i - 1 \in 1 .. k
    BY <1>1
  <2> QED BY <2>1
<1>3. PICK s : s = SubSeq(ts, p, n)
  OBVIOUS
<1>4. IsSequence(s) /\ Len(s) = l /\ \A i \in 1 .. l : s[i] = ts[p + i - 1]
  <2>1. /\ IsSequence(SubSeq(ts, p, n)) /\ Len(SubSeq(ts, p, n)) = n - p + 1
        /\ \A i \in 1 .. n - p + 1 : SubSeq(ts, p, n)[i] = ts[p + i - 1]
    BY <1>1, SubSeqFacts
  <2> QED BY <1>2, <1>3, <2>1
<1>5. DOMAIN s = 1 .. l
  BY <1>4, SequenceFacts
<1>6. \A i \in 1 .. l : IsSequence(s[i].text)
  BY <1>1, <1>2, <1>4 DEF AreTokens
<1> QED BY <1>3, <1>4, <1>5, <1>6 DEF AreTokens

\* Nodes are as wide as long after each step of the parser.
LEMMA WideNext == Balanced /\ Told /\ Wide(b) /\ [Next]_vars => Wide(b)'
<1> SUFFICES ASSUME Balanced, Told, Wide(b), [Next]_vars
             PROVE  Wide(b')
  OBVIOUS
<1>1. CASE UNCHANGED b
  BY <1>1
<1>2. Len(b.stack) \in Nat /\ Sound(b) /\ IsArena(b)
  BY StackFacts DEF Balanced, Told, Sound
<1>3. ASSUME todo # <<>>, Head(todo).op \notin {"lex", "open"}
      PROVE  During /\ Len(b.stack) >= 2
  BY <1>3, BeforeHead DEF Balanced, After, During
<1>4. ASSUME NEW n \in pos - 1 .. Len(tokens), Emit(n), Len(b.stack) >= 2
      PROVE  Wide(b')
  <2>1. b' = Emitted(b, SubSeq(tokens, pos, n))
    BY <1>4 DEF Emit, Emitted
  <2>2. AreTokens(SubSeq(tokens, pos, n))
    BY <1>4, PartsAreTokens DEF Balanced, Reads, Told
  <2>3. Len(b.stack) >= 1
    BY <1>2, <1>4
  <2> QED BY <1>2, <2>1, <2>2, <2>3, EmitWide
<1>5. CASE DoBump
  <2>1. Len(b.stack) >= 2
    BY <1>3, <1>5 DEF DoBump, Doing
  <2>2. PICK n : n = Min({BeforeSignificant + 1, Len(tokens)}) /\ n \in pos - 1 .. Len(tokens)
    BY BumpEnds DEF Balanced
  <2>3. Emit(n)
    BY <1>5, <2>2 DEF DoBump
  <2> QED BY <1>4, <2>1, <2>2, <2>3
<1>6. CASE DoEmitTrivia
  <2>1. Len(b.stack) >= 2
    BY <1>3, <1>6 DEF DoEmitTrivia, Doing
  <2>2. PICK n : n = BeforeSignificant /\ n \in pos - 1 .. Len(tokens)
    BY BeforeSignificantFacts DEF Balanced
  <2>3. Emit(n)
    BY <1>6, <2>2 DEF DoEmitTrivia
  <2> QED BY <1>4, <2>1, <2>2, <2>3
<1>7. CASE DoStartNode
  <2>1. PICK kind : b' = StartNode(b, kind)
    BY <1>7 DEF DoStartNode
  <2>2. PICK y : y = StartNode(b, kind)
    OBVIOUS
  <2>3. y.leaves = b.leaves /\ y.nodes = b.nodes
    <3>1. PICK stack : y = [b EXCEPT !.stack = stack]
      BY <2>2 DEF StartNode
    <3>2. y = [leaves |-> b.leaves, nodes |-> b.nodes, stack |-> stack]
      BY <1>2, <3>1 DEF Sound, IsBuilder
    <3> QED BY <3>2
  <2>4. IsArena(y) /\ Extends(b, y)
    BY <1>2, <2>3, SameArena
  <2> QED BY <1>2, <2>1, <2>2, <2>3, <2>4, WideSame
<1>8. CASE DoFinishNode
  <2>1. Len(b.stack) >= 2
    BY <1>3, <1>8 DEF DoFinishNode, Doing
  <2>2. b' = FinishNode(b)
    BY <1>8 DEF DoFinishNode
  <2> QED BY <1>2, <2>1, <2>2, FinishNodeWide
<1>9. CASE WrapMarked
  <2>1. During /\ Len(b.stack) >= 2
    BY <1>3, <1>9 DEF WrapMarked, Doing
  <2>2. PICK cp, kind : cp = Last(marks).cp /\ kind = Last(marks).kind
    OBVIOUS
  <2>3. cp.n \in 0 .. Len(b.stack[Len(b.stack)].children)
    BY <1>9, <2>1, <2>2, LastCheckpoint DEF WrapMarked
  <2>4. PICK y : y = StartNodeAt(b, cp, kind)
    OBVIOUS
  <2>5. Sound(y) /\ Len(y.stack) = Len(b.stack) + 1
    BY <1>2, <2>1, <2>3, <2>4, StartNodeAtText
  <2>6. Len(y.stack) >= 2
    BY <1>2, <2>1, <2>5
  <2>7. y.leaves = b.leaves /\ y.nodes = b.nodes
    <3>1. PICK stack : y = [b EXCEPT !.stack = stack]
      BY <2>4 DEF StartNodeAt
    <3>2. y = [leaves |-> b.leaves, nodes |-> b.nodes, stack |-> stack]
      BY <1>2, <3>1 DEF Sound, IsBuilder
    <3> QED BY <3>2
  <2>8. Wide(y)
    <3>1. IsArena(y) /\ Extends(b, y)
      BY <1>2, <2>7, SameArena
    <3> QED BY <1>2, <2>7, <3>1, WideSame
  <2>9. b' = FinishNode(y)
    BY <1>9, <2>2, <2>4 DEF WrapMarked
  <2> QED BY <2>5, <2>6, <2>8, <2>9, FinishNodeWide
<1> QED BY <1>1, <1>5, <1>6, <1>7, <1>8, <1>9
        DEF Next, vars, LexToken, LexEOF, StandStill, Choose, Iterate, ReturnEarly, ParseMember,
            TakeCheckpoint, ChooseKind

\* Where a child stands: behind the text of those before it.
LEMMA OffsetIs ==
  ASSUME NEW x, IsArena(x), Wide(x), NEW cs, Children(x, cs), NEW j \in DOMAIN cs, NEW off \in Nat
  PROVE  /\ j \in Nat /\ j - 1 \in Nat /\ j - 1 + 1 = j /\ j <= Len(cs)
         /\ Children(x, SubSeq(cs, 1, j - 1))
         /\ Offset(x, cs, j, off) = off + Len(ChildrenText(x, SubSeq(cs, 1, j - 1)))
         /\ Offset(x, cs, j, off) \in Nat
<1>1. j \in Nat /\ j - 1 \in Nat /\ j - 1 + 1 = j /\ j <= Len(cs)
  BY SequenceFacts DEF Children, ChildrenOf
<1>2. PICK k \in Nat : k = j - 1
  BY <1>1
<1>3. PICK p : p = SubSeq(cs, 1, k)
  OBVIOUS
<1>4. Children(x, p)
  BY <1>1, <1>2, <1>3, FirstChildren
<1>5. TotalWidth(x, p) = Len(ChildrenText(x, p)) /\ Len(ChildrenText(x, p)) \in Nat
  BY <1>4, TotalWidthIs, ChildrenTextSequence, SequenceFacts
<1>6. Offset(x, cs, j, off) = off + TotalWidth(x, p)
  BY <1>2, <1>3 DEF Offset
<1> QED BY <1>1, <1>2, <1>3, <1>4, <1>5, <1>6

\* The recursive function of Cursors, for the first n nodes.
Places(n) == [node : 1 .. n, offset : Nat]
Below(x, f, c) ==
  LET children == x.nodes[c.node].children
  IN  {c} \cup UNION {f[[node |-> children[j].at, offset |-> Offset(x, children, j, c.offset)]] :
                        j \in {h \in DOMAIN children : ~children[h].leaf}}
IsBelow(x, f, n) == f = [c \in Places(n) |-> Below(x, f, c)]

\* The places of the children of a node are those of nodes before it.
LEMMA PlacesBefore ==
  ASSUME NEW x, IsArena(x), Wide(x), NEW k \in 1 .. Len(x.nodes), NEW off \in Nat,
         NEW cs, cs = x.nodes[k].children, NEW j \in DOMAIN cs, ~cs[j].leaf
  PROVE  [node |-> cs[j].at, offset |-> Offset(x, cs, j, off)] \in Places(k - 1)
<1>1. k \in DOMAIN x.nodes
  BY SequenceFacts DEF IsArena
<1>2. ChildrenOf(x, cs, k - 1)
  BY <1>1 DEF IsArena
<1>3. cs[j].at \in 1 .. k - 1
  BY <1>2 DEF ChildrenOf, ChildOf
<1>4. Children(x, cs)
  <2>1. Len(x.nodes) \in Nat /\ \A i \in 1 .. k - 1 : i \in 1 .. Len(x.nodes)
    BY SequenceFacts DEF IsArena
  <2> QED BY <1>2, <2>1 DEF Children, ChildrenOf, ChildOf
<1>5. Offset(x, cs, j, off) \in Nat
  BY <1>4, OffsetIs
<1> QED BY <1>3, <1>5 DEF Places

\* What is below a node depends on the nodes before it.
LEMMA BelowAgree ==
  ASSUME NEW x, IsArena(x), Wide(x), NEW k \in 1 .. Len(x.nodes), NEW c \in Places(k), c.node = k,
         NEW f, NEW g, \A d \in Places(k - 1) : f[d] = g[d]
  PROVE  Below(x, f, c) = Below(x, g, c)
<1>1. PICK cs : cs = x.nodes[c.node].children
  OBVIOUS
<1>2. PICK off \in Nat : off = c.offset
  BY DEF Places
<1> DEFINE Child(j) == [node |-> cs[j].at, offset |-> Offset(x, cs, j, off)]
           J == {h \in DOMAIN cs : ~cs[h].leaf}
<1>3. \A j \in J : Child(j) \in Places(k - 1)
  BY <1>1, PlacesBefore
<1>4. \A j \in J : f[Child(j)] = g[Child(j)]
  BY <1>3
<1>5. Below(x, f, c) = {c} \cup UNION {f[Child(j)] : j \in J}
  BY <1>1, <1>2 DEF Below
<1>6. Below(x, g, c) = {c} \cup UNION {g[Child(j)] : j \in J}
  BY <1>1, <1>2 DEF Below
<1> HIDE DEF Child, J
<1>7. {f[Child(j)] : j \in J} = {g[Child(j)] : j \in J}
  BY <1>4
<1> QED BY <1>5, <1>6, <1>7

\* The recursive function exists.
LEMMA BelowExists ==
  ASSUME NEW x, IsArena(x), Wide(x)
  PROVE  \E f : IsBelow(x, f, Len(x.nodes))
<1>1. PICK l \in Nat : l = Len(x.nodes)
  BY SequenceFacts DEF IsArena
<1> DEFINE T == {n \in 0 .. l : ~\E f : IsBelow(x, f, n)}
<1> SUFFICES T = {}
  BY <1>1
<1> SUFFICES ASSUME T # {}
             PROVE  FALSE
  OBVIOUS
<1>2. T \in SUBSET Nat
  OBVIOUS
<1>3. PICK m \in T : \A n \in T : m <= n
  BY <1>2, LeastElement
<1>4. m \in 0 .. l /\ ~\E f : IsBelow(x, f, m)
  OBVIOUS
<1>5. CASE m = 0
  <2> DEFINE f == [c \in Places(0) |-> {}]
  <2>1. Places(0) = {}
    BY DEF Places
  <2>2. IsBelow(x, f, 0)
    BY <2>1 DEF IsBelow
  <2> QED BY <1>4, <1>5, <2>2
<1>6. CASE m # 0
  <2>1. PICK k \in Nat : k = m - 1 /\ m = k + 1 /\ k \in 0 .. l /\ ~(m <= k) /\ m \in 1 .. l
    BY <1>4, <1>6
  <2>2. k \notin T
    BY <1>3, <2>1
  <2>3. PICK f : IsBelow(x, f, k)
    BY <2>1, <2>2
  <2> HIDE DEF T
  <2> DEFINE g == [c \in Places(m) |-> IF c.node = m THEN Below(x, f, c) ELSE f[c]]
  <2>4. \A c \in Places(m) : c.node = m \/ c \in Places(k)
    <3> TAKE c \in Places(m)
    <3>1. c = [node |-> c.node, offset |-> c.offset] /\ c.node \in 1 .. m /\ c.offset \in Nat
      BY DEF Places
    <3>2. c.node = m \/ c.node \in 1 .. k
      BY <2>1, <3>1
    <3> QED BY <3>1, <3>2 DEF Places
  <2>5. \A c \in Places(k) : c \in Places(m) /\ c.node # m
    <3> TAKE c \in Places(k)
    <3>1. c = [node |-> c.node, offset |-> c.offset] /\ c.node \in 1 .. k /\ c.offset \in Nat
      BY DEF Places
    <3>2. c.node # m /\ c.node \in 1 .. m
      BY <2>1, <3>1
    <3> QED BY <3>1, <3>2 DEF Places
  <2>6. \A c \in Places(k) : f[c] = g[c] /\ f[c] = Below(x, f, c)
    BY <2>3, <2>5 DEF IsBelow
  <2>7. /\ \A c \in Places(m) : c.node = m => g[c] = Below(x, f, c)
        /\ g = [c \in Places(m) |-> g[c]]
    OBVIOUS
  <2> HIDE DEF g
  <2>8. ASSUME NEW c \in Places(m)
        PROVE  Below(x, f, c) = Below(x, g, c)
    <3>1. PICK i : i = c.node /\ i \in 1 .. m /\ i \in 1 .. Len(x.nodes) /\ c \in Places(i)
      <4>1. c = [node |-> c.node, offset |-> c.offset] /\ c.node \in 1 .. m /\ c.offset \in Nat
        BY DEF Places
      <4>2. c.node \in 1 .. Len(x.nodes) /\ c.node \in 1 .. c.node
        BY <1>1, <2>1, <4>1
      <4>3. c \in Places(c.node)
        BY <4>1, <4>2 DEF Places
      <4> QED BY <4>1, <4>2, <4>3
    <3>2. \A j \in 1 .. i - 1 : j \in 1 .. k
      BY <2>1, <3>1
    <3>3. \A d \in Places(i - 1) : d \in Places(k)
      BY <3>2 DEF Places
    <3>4. \A d \in Places(i - 1) : f[d] = g[d]
      BY <2>6, <3>3
    <3> QED BY <3>1, <3>4, BelowAgree
  <2>9. \A c \in Places(m) : g[c] = Below(x, g, c)
    BY <2>4, <2>6, <2>7, <2>8
  <2>10. IsBelow(x, g, m)
    BY <2>7, <2>9 DEF IsBelow
  <2> QED BY <1>4, <2>10
<1> QED BY <1>5, <1>6

\* What Cursors is.
LEMMA CursorsAre ==
  ASSUME NEW x, IsArena(x), Wide(x), NEW i, NEW from
  PROVE  \E f : IsBelow(x, f, Len(x.nodes)) /\ Cursors(x, i, from) = f[[node |-> i, offset |-> from]]
<1>1. DOMAIN x.nodes = 1 .. Len(x.nodes)
  BY SequenceFacts DEF IsArena
<1>2. PICK f : IsBelow(x, f, Len(x.nodes))
  BY BelowExists
<1> DEFINE g == CHOOSE g : IsBelow(x, g, Len(x.nodes))
<1>3. IsBelow(x, g, Len(x.nodes))
  BY <1>2
<1>4. Cursors(x, i, from) = g[[node |-> i, offset |-> from]]
  BY <1>1 DEF Cursors, IsBelow, Below, Places
<1> QED BY <1>3, <1>4

\* A text that stands in a source.
Stands(t, s, off) == off + Len(t) <= Len(s) /\ \A i \in 1 .. Len(t) : t[i] = s[off + i]

\* A part of it does.
LEMMA PartStands ==
  ASSUME NEW s, IsSequence(s), NEW off \in Nat, NEW p, NEW t, NEW r,
         IsSequence(p), IsSequence(t), IsSequence(r), Stands((p \o t) \o r, s, off)
  PROVE  Stands(t, s, off + Len(p))
<1>1. PICK k, l, n, m \in Nat : k = Len(p) /\ l = Len(t) /\ n = Len(r) /\ m = Len(s)
  BY SequenceFacts
<1>2. PICK q : q = p \o t
  OBVIOUS
<1>3. IsSequence(q) /\ Len(q) = k + l /\ \A i \in 1 .. k + l : q[i] = IF i <= k THEN p[i] ELSE t[i - k]
  BY <1>1, <1>2, ConcatFacts
<1>4. PICK u : u = q \o r
  OBVIOUS
<1>5. Len(u) = k + l + n /\ \A i \in 1 .. k + l + n : u[i] = IF i <= k + l THEN q[i] ELSE r[i - (k + l)]
  <2>1. /\ Len(u) = Len(q) + Len(r)
        /\ \A i \in 1 .. Len(q) + Len(r) : u[i] = IF i <= Len(q) THEN q[i] ELSE r[i - Len(q)]
    BY <1>3, <1>4, ConcatFacts
  <2> QED BY <1>1, <1>3, <2>1
<1>6. off + (k + l + n) <= m /\ \A i \in 1 .. k + l + n : u[i] = s[off + i]
  BY <1>1, <1>2, <1>4, <1>5 DEF Stands
<1>7. ASSUME NEW i \in 1 .. l
      PROVE  t[i] = s[off + k + i]
  <2>1. PICK j : j = k + i /\ j \in 1 .. k + l + n /\ j \in 1 .. k + l /\ j <= k + l /\ ~(j <= k)
                 /\ j - k = i /\ off + j = off + k + i
    BY <1>1
  <2>2. u[j] = q[j] /\ q[j] = t[i] /\ u[j] = s[off + j]
    BY <1>3, <1>5, <1>6, <2>1
  <2> QED BY <2>1, <2>2
<1>8. off + k + l <= m
  BY <1>6
<1> QED BY <1>1, <1>7, <1>8 DEF Stands

\* A child stands where it is said to, if its node does.
LEMMA ChildStands ==
  ASSUME NEW x, IsArena(x), Wide(x), NEW s, IsSequence(s), NEW k \in 1 .. Len(x.nodes), NEW off \in Nat,
         Stands(Texts(x)[k], s, off),
         NEW cs, cs = x.nodes[k].children, NEW j \in DOMAIN cs
  PROVE  Stands(Piece(x, Texts(x), cs[j]), s, Offset(x, cs, j, off))
<1>1. Children(x, cs)
  <2>1. k \in DOMAIN x.nodes /\ Len(x.nodes) \in Nat /\ \A i \in 1 .. k - 1 : i \in 1 .. Len(x.nodes)
    BY SequenceFacts DEF IsArena
  <2>2. ChildrenOf(x, cs, k - 1)
    BY <2>1 DEF IsArena
  <2> QED BY <2>1, <2>2 DEF Children, ChildrenOf, ChildOf
<1>2. Texts(x)[k] = ChildrenText(x, cs)
  <2>1. PICK g : g = Texts(x)
    OBVIOUS
  <2>2. g[k] = FlattenSeq(Pieces(x, g, cs))
    BY <2>1, TextsIs DEF IsText
  <2> QED BY <2>1, <2>2, ChildrenTextIs
<1>3. PICK h \in Nat : h = j - 1 /\ h + 1 = j /\ j \in Nat /\ h + 1 <= Len(cs)
  <2>1. j \in Nat /\ j - 1 \in Nat /\ j - 1 + 1 = j /\ j <= Len(cs)
    BY <1>1, OffsetIs
  <2> QED BY <2>1
<1>4. PICK p, q, r, t : /\ p = SubSeq(cs, 1, h) /\ q = SubSeq(cs, 1, j) /\ r = SubSeq(cs, j + 1, Len(cs))
                        /\ t = Piece(x, Texts(x), cs[j])
  OBVIOUS
<1>5. Children(x, p) /\ ChildOf(x, cs[j], Len(x.nodes)) /\ ChildrenText(x, q) = ChildrenText(x, p) \o t
  BY <1>1, <1>3, <1>4, FirstChildren
<1>6. cs = q \o r /\ IsSequence(q) /\ IsSequence(r)
  <2>1. IsSequence(cs) /\ j \in 0 .. Len(cs)
    BY <1>1, <1>3, SequenceFacts DEF Children, ChildrenOf
  <2> QED BY <1>4, <2>1, SplitAt
<1>7. Children(x, q) /\ Children(x, r)
  BY <1>1, <1>6, ChildrenParts DEF Children
<1>8. ChildrenText(x, cs) = (ChildrenText(x, p) \o t) \o ChildrenText(x, r)
  <2>1. ChildrenText(x, q \o r) = ChildrenText(x, q) \o ChildrenText(x, r)
    BY <1>7, ChildrenTextConcat
  <2> QED BY <1>5, <1>6, <2>1
<1>9. IsSequence(ChildrenText(x, p)) /\ IsSequence(t) /\ IsSequence(ChildrenText(x, r))
  BY <1>4, <1>5, <1>7, ChildrenTextSequence, ChildWidthIs
<1>10. Stands(t, s, off + Len(ChildrenText(x, p)))
  BY <1>2, <1>8, <1>9, PartStands
<1>11. Offset(x, cs, j, off) = off + Len(ChildrenText(x, p))
  <2>1. Offset(x, cs, j, off) = off + Len(ChildrenText(x, SubSeq(cs, 1, j - 1)))
    BY <1>1, OffsetIs
  <2> QED BY <1>3, <1>4, <2>1
<1> QED BY <1>4, <1>10, <1>11

\* The cursors below one that stands where its text does.
LEMMA CursorsStand ==
  ASSUME NEW x, IsArena(x), Wide(x), NEW s, IsSequence(s), NEW f, IsBelow(x, f, Len(x.nodes))
  PROVE  \A k \in 1 .. Len(x.nodes) : \A off \in Nat :
           Stands(Texts(x)[k], s, off) =>
             \A d \in f[[node |-> k, offset |-> off]] :
               d \in Places(Len(x.nodes)) /\ Stands(Texts(x)[d.node], s, d.offset)
<1>1. PICK l \in Nat : l = Len(x.nodes)
  BY SequenceFacts DEF IsArena
<1> DEFINE Stand(d) == d \in Places(l) /\ Stands(Texts(x)[d.node], s, d.offset)
           Good(k) == \A off \in Nat : Stands(Texts(x)[k], s, off) =>
                        \A d \in f[[node |-> k, offset |-> off]] : Stand(d)
           T == {k \in 1 .. l : ~Good(k)}
<1> SUFFICES T = {}
  BY <1>1
<1> SUFFICES ASSUME T # {}
             PROVE  FALSE
  OBVIOUS
<1>2. T \in SUBSET Nat
  OBVIOUS
<1>3. PICK k \in T : \A n \in T : k <= n
  BY <1>2, LeastElement
<1>4. k \in 1 .. l /\ ~Good(k)
  OBVIOUS
<1>5. \A n \in 1 .. k - 1 : Good(n)
  <2> TAKE n \in 1 .. k - 1
  <2>1. n \in 1 .. l /\ ~(k <= n)
    BY <1>1, <1>4
  <2> QED BY <1>3, <2>1
<1> HIDE DEF T
<1>6. PICK off \in Nat : /\ Stands(Texts(x)[k], s, off)
                         /\ \E d \in f[[node |-> k, offset |-> off]] : ~Stand(d)
  BY <1>4
<1>7. PICK d : d \in f[[node |-> k, offset |-> off]] /\ ~Stand(d)
  BY <1>6
<1>8. PICK c : c = [node |-> k, offset |-> off] /\ c \in Places(l) /\ c.node = k /\ c.offset = off
  <2> HIDE DEF Stand
  <2>1. [node |-> k, offset |-> off] \in Places(l)
    BY <1>4 DEF Places
  <2> QED BY <2>1
<1>9. f[c] = Below(x, f, c)
  BY <1>1, <1>8 DEF IsBelow
<1>10. PICK cs : cs = x.nodes[k].children
  OBVIOUS
<1>11. d # c
  BY <1>6, <1>7, <1>8
<1>12. PICK j \in DOMAIN cs : /\ ~cs[j].leaf
                              /\ d \in f[[node |-> cs[j].at, offset |-> Offset(x, cs, j, off)]]
  <2>1. Below(x, f, c) = {c} \cup UNION {f[[node |-> cs[j].at, offset |-> Offset(x, cs, j, off)]] :
                                           j \in {h \in DOMAIN cs : ~cs[h].leaf}}
    BY <1>8, <1>10 DEF Below
  <2>2. d \in Below(x, f, c) /\ d \notin {c}
    BY <1>7, <1>8, <1>9, <1>11
  <2> HIDE DEF Stand
  <2> QED BY <2>1, <2>2
<1>13. PICK e, o : e = cs[j].at /\ o = Offset(x, cs, j, off)
  OBVIOUS
<1>14. e \in 1 .. k - 1 /\ o \in Nat
  <2>1. [node |-> e, offset |-> o] \in Places(k - 1)
    BY <1>1, <1>4, <1>10, <1>12, <1>13, PlacesBefore
  <2> HIDE DEF Stand
  <2> QED BY <2>1 DEF Places
<1>15. Stands(Texts(x)[e], s, o)
  <2>1. Stands(Piece(x, Texts(x), cs[j]), s, o)
    BY <1>1, <1>4, <1>6, <1>10, <1>13, ChildStands
  <2> QED BY <1>12, <1>13, <2>1 DEF Piece
<1>16. Good(e)
  BY <1>5, <1>14
<1> HIDE DEF Stand
<1>17. Stand(d)
  BY <1>12, <1>13, <1>14, <1>15, <1>16
<1> QED BY <1>7, <1>17

\* What stands in a source is a part of it.
LEMMA StandsIsSlice ==
  ASSUME NEW s, IsSequence(s), NEW t, IsSequence(t), NEW off \in Nat, Stands(t, s, off)
  PROVE  t = SubSeq(s, off + 1, off + Len(t))
<1>1. PICK k, l \in Nat : k = Len(t) /\ l = Len(s) /\ off + k <= l
  BY SequenceFacts DEF Stands
<1>2. PICK p, n \in Nat : p = off + 1 /\ n = off + k /\ p \in 1 .. l + 1 /\ n \in p - 1 .. l /\ n - p + 1 = k
                          /\ \A i \in 1 .. k : p + i - 1 = off + i
  <2>1. off + 1 \in Nat /\ off + k \in Nat /\ off + 1 \in 1 .. l + 1 /\ off + k \in off + 1 - 1 .. l
    BY <1>1
  <2>2. off + k - (off + 1) + 1 = k /\ \A i \in 1 .. k : off + 1 + i - 1 = off + i
    BY <1>1
  <2> QED BY <2>1, <2>2
<1>3. PICK u : u = SubSeq(s, p, n)
  OBVIOUS
<1>4. IsSequence(u) /\ Len(u) = k /\ \A i \in 1 .. k : u[i] = s[p + i - 1]
  <2>1. /\ IsSequence(SubSeq(s, p, n)) /\ Len(SubSeq(s, p, n)) = n - p + 1
        /\ \A i \in 1 .. n - p + 1 : SubSeq(s, p, n)[i] = s[p + i - 1]
    BY <1>1, <1>2, SubSeqFacts
  <2> QED BY <1>2, <1>3, <2>1
<1>5. \A i \in 1 .. k : t[i] = u[i]
  BY <1>1, <1>2, <1>4 DEF Stands
<1>6. t = u
  BY <1>1, <1>4, <1>5, SameSequence
<1> QED BY <1>1, <1>2, <1>3, <1>6

\* The root is a node of the arena.
LEMMA RootIsNode ==
  ASSUME Sound(b), MayFinish(b)
  PROVE  Root \in 1 .. Len(b.nodes)
<1>1. PICK cs : cs = b.stack[1].children /\ Len(cs) = 1 /\ ~cs[1].leaf /\ Root = cs[1].at /\ Len(b.stack) = 1
  BY DEF MayFinish, Top, Root
<1>2. 1 \in DOMAIN b.stack
  <2>1. IsSequence(b.stack) /\ 1 \in 1 .. 1
    BY DEF Sound, Frames
  <2> QED BY <1>1, <2>1, SequenceFacts
<1>3. Children(b, cs)
  BY <1>1, <1>2 DEF Sound, Frames
<1>4. 1 \in DOMAIN cs
  <2>1. IsSequence(cs) /\ 1 \in 1 .. 1
    BY <1>3 DEF Children, ChildrenOf
  <2> QED BY <1>1, <2>1, SequenceFacts
<1>5. ChildOf(b, cs[1], Len(b.nodes))
  BY <1>3, <1>4 DEF Children, ChildrenOf
<1> QED BY <1>1, <1>5 DEF ChildOf

\* The invariants are why cursors slice the source.
LEMMA WideSlices == Balanced /\ Told /\ Ending /\ Wide(b) => CursorsSlice
<1> SUFFICES ASSUME Balanced, Told, Ending, Wide(b), Parsed, NEW c \in Cursors(b, Root, 0)
             PROVE  Texts(b)[c.node] = SubSeq(source, c.offset + 1, c.offset + b.nodes[c.node].width)
  BY DEF CursorsSlice
<1>1. IsArena(b) /\ IsSequence(source)
  BY DEF Told, Sound, IsSource
<1>2. Texts(b)[Root] = source
  BY ToldIsLossless DEF Lossless
<1>3. Root \in 1 .. Len(b.nodes)
  BY BalancedNeverPanics, RootIsNode DEF NeverPanics, Told
<1>4. PICK f : IsBelow(b, f, Len(b.nodes)) /\ Cursors(b, Root, 0) = f[[node |-> Root, offset |-> 0]]
  BY <1>1, CursorsAre
<1>5. Stands(source, source, 0)
  <2>1. Len(source) \in Nat
    BY <1>1, SequenceFacts
  <2>2. 0 + Len(source) <= Len(source) /\ \A i \in 1 .. Len(source) : 0 + i = i
    BY <2>1
  <2> QED BY <2>2 DEF Stands
<1>6. c \in Places(Len(b.nodes)) /\ Stands(Texts(b)[c.node], source, c.offset)
  <2>1. \A k \in 1 .. Len(b.nodes) : \A off \in Nat :
          Stands(Texts(b)[k], source, off) =>
            \A d \in f[[node |-> k, offset |-> off]] :
              d \in Places(Len(b.nodes)) /\ Stands(Texts(b)[d.node], source, d.offset)
    BY <1>1, <1>4, CursorsStand
  <2>2. 0 \in Nat
    OBVIOUS
  <2> QED BY <1>2, <1>3, <1>4, <1>5, <2>1, <2>2
<1>7. c.node \in 1 .. Len(b.nodes) /\ c.offset \in Nat
  BY <1>6 DEF Places
<1>8. IsSequence(Texts(b)[c.node]) /\ b.nodes[c.node].width = Len(Texts(b)[c.node])
  BY <1>1, <1>7, TextsAreSequences DEF Wide
<1> QED BY <1>1, <1>6, <1>7, <1>8, StandsIsSlice

\* Whatever the source, a cursor of the tree says where its text stands in
\* the source: widths are added up along the way as texts are (red.go
\* Range, Children).
THEOREM CursorsAreRight == Spec => []CursorsSlice
<1>1. Init => Balanced /\ Told /\ Ending /\ Wide(b)
  <2>1. Init => Wide(b)
    BY EmptyIsSequence DEF Init, NewBuilder, Wide
  <2> QED BY <2>1, BalancedInit, ToldInit, EndingInit
<1>2. Balanced /\ Told /\ Ending /\ Wide(b) /\ [Next]_vars => (Balanced /\ Told /\ Ending /\ Wide(b))'
  BY BalancedNext, ToldNext, EndingNext, WideNext
<1>3. Balanced /\ Told /\ Ending /\ Wide(b) => CursorsSlice
  BY WideSlices
<1> QED BY <1>1, <1>2, <1>3, PTL DEF Spec
=============================================================================
