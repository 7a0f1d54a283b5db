------------------------- MODULE WorkflowProofs -------------------------
(***************************************************************************)
(* The function that is generated for a workflow (Workflow) does what the  *)
(* model asks for (WorkflowSpec), for every supported workflow, any number *)
(* of signals and whatever the server does.                                *)
(*                                                                         *)
(* The generated program is orderly (IsOrderly): each occurrence of an     *)
(* item is begun once and waited for, and before a statement begins one    *)
(* there is a statement that waits for each that has to come before. It is *)
(* put together from blocks that have these properties, one for each place *)
(* in the source. An execution of an orderly program is then tracked by    *)
(* what it has passed (ExecutionInv).                                      *)
(***************************************************************************)
EXTENDS Workflow, ListFacts
-----------------------------------------------------------------------------
(***************************************************************************)
(* The order of the source.                                                *)
(***************************************************************************)
\* s goes through items in source order.
GoesThrough(s, items) ==
  /\ IsSequence(s)
  /\ \A p \in 1 .. Len(s) : s[p] \in items
  /\ \A p, q \in 1 .. Len(s) : p < q => s[p] < s[q]
  /\ \A i \in items : \E p \in 1 .. Len(s) : s[p] = i

\* InOrder does, whatever the items.
LEMMA InOrderGoes ==
  ASSUME IsSequence(wf.body), NEW items \in SUBSET DOMAIN wf.body
  PROVE  GoesThrough(InOrder(wf, items), items)
<1>1. PICK n \in Nat : n = Len(wf.body) /\ DOMAIN wf.body = 1 .. n
  BY SequenceFacts
<1>2. PICK ss : ss = [i \in 1 .. n |-> IF i \in items THEN <<i>> ELSE <<>>]
  OBVIOUS
<1>3. IsSequence(ss) /\ Len(ss) = n /\ DOMAIN ss = 1 .. n
  <2>1. ss = [i \in 1 .. n |-> ss[i]]
    BY <1>2
  <2> QED BY <2>1, SequenceOf, SequenceFacts
<1>4. /\ \A i \in items : i \in 1 .. n /\ IsSequence(ss[i]) /\ Len(ss[i]) = 1 /\ ss[i][1] = i
      /\ \A i \in 1 .. n : i \notin items => IsSequence(ss[i]) /\ Len(ss[i]) = 0
  BY <1>1, <1>2, SingleFacts, EmptyIsSequence
<1>5. PICK F : F = InOrder(wf, items) /\ F = FlattenSeq(ss)
  BY <1>1, <1>2 DEF InOrder
<1>6. \A i \in DOMAIN ss : IsSequence(ss[i])
  BY <1>3, <1>4
<1>7. IsSequence(F) /\ Len(F) \in Nat
  BY <1>3, <1>5, <1>6, FlattenIsSequence, SequenceFacts
<1>8. PICK b, o : FlattenedBy(F, ss, b, o)
  BY <1>3, <1>5, <1>6, FlattenBlocks
<1>9. \A p \in 1 .. Len(F) : b[p] \in items /\ o[p] = 1 /\ F[p] = b[p]
  <2> SUFFICES ASSUME NEW p \in 1 .. Len(F)
               PROVE  b[p] \in items /\ o[p] = 1 /\ F[p] = b[p]
    OBVIOUS
  <2>1. b[p] \in 1 .. n /\ o[p] \in 1 .. Len(ss[b[p]]) /\ F[p] = ss[b[p]][o[p]]
    BY <1>3, <1>8 DEF FlattenedBy
  <2>2. b[p] \in items
    <3>1. b[p] \notin items => 1 .. Len(ss[b[p]]) = 1 .. 0
      BY <1>4, <2>1
    <3>2. 1 .. 0 = {}
      OBVIOUS
    <3> QED BY <2>1, <3>1, <3>2
  <2>3. o[p] = 1
    BY <1>4, <2>1, <2>2
  <2> QED BY <1>4, <2>1, <2>2, <2>3
<1>10. \A p, q \in 1 .. Len(F) : p < q => F[p] < F[q]
  <2> SUFFICES ASSUME NEW p \in 1 .. Len(F), NEW q \in 1 .. Len(F), p < q
               PROVE  F[p] < F[q]
    OBVIOUS
  <2>1. b[p] < b[q] \/ (b[p] = b[q] /\ o[p] < o[q])
    BY <1>8 DEF FlattenedBy
  <2>2. ~(o[p] < o[q])
    BY <1>9
  <2> QED BY <1>9, <2>1, <2>2
<1>11. \A i \in items : \E p \in 1 .. Len(F) : F[p] = i
  <2> SUFFICES ASSUME NEW i \in items
               PROVE  \E p \in 1 .. Len(F) : F[p] = i
    OBVIOUS
  <2>1. i \in 1 .. Len(ss) /\ 1 \in 1 .. Len(ss[i])
    BY <1>3, <1>4
  <2>2. PICK p \in 1 .. Len(F) : b[p] = i /\ o[p] = 1
    BY <1>8, <2>1 DEF FlattenedBy
  <2> QED BY <1>9, <2>2
<1> QED BY <1>5, <1>7, <1>9, <1>10, <1>11 DEF GoesThrough

\* What the generator emits something for.
Placed == OfKind(wf, {"step", "signal", "timer", "loop", "perform"})

\* Of what is supported, performs come last in the source too.
LEMMA OrderedBodyGoes ==
  ASSUME IsWorkflow(wf), Supported(wf)
  PROVE  GoesThrough(OrderedBody(wf), Placed)
<1>1. IsSequence(wf.body)
  BY DEF IsWorkflow
<1>2. PICK main, last : /\ main = OfKind(wf, {"step", "signal", "timer", "loop"})
                        /\ last = OfKind(wf, {"perform"})
  OBVIOUS
<1>3. /\ main \in SUBSET DOMAIN wf.body /\ last \in SUBSET DOMAIN wf.body
      /\ Placed = main \cup last
      /\ \A i \in main : wf.body[i].kind \in {"step", "signal", "timer", "loop"}
      /\ \A i \in last : wf.body[i].kind = "perform"
  BY <1>2 DEF OfKind, Placed
<1>4. PICK s, t : s = Positions(wf, {"step", "signal", "timer", "loop"}) /\ t = Positions(wf, {"perform"})
  OBVIOUS
<1>5. GoesThrough(s, main) /\ GoesThrough(t, last)
  BY <1>1, <1>2, <1>3, <1>4, InOrderGoes DEF Positions
<1>6. \A i \in main, j \in last : i < j
  <2> SUFFICES ASSUME NEW i \in main, NEW j \in last
               PROVE  i < j
    OBVIOUS
  <2>1. i \in Int /\ j \in Int
    BY <1>1, <1>3, SequenceFacts
  <2>2. i # j
    BY <1>3
  <2>3. ~(j < i)
    BY <1>3 DEF Supported
  <2> QED BY <2>1, <2>2, <2>3
<1>7. PICK n \in Nat, m \in Nat : n = Len(s) /\ m = Len(t) /\ IsSequence(s) /\ IsSequence(t)
  BY <1>5, SequenceFacts DEF GoesThrough
<1>8. PICK u : u = s \o t
  OBVIOUS
<1>9. IsSequence(u) /\ Len(u) = n + m /\ \A p \in 1 .. n + m : u[p] = IF p <= n THEN s[p] ELSE t[p - n]
  BY <1>7, <1>8, ConcatFacts
<1>10. /\ \A p \in 1 .. n : p \in 1 .. n + m /\ u[p] = s[p] /\ u[p] \in main
       /\ \A p \in 1 .. n + m : p \notin 1 .. n => p - n \in 1 .. m /\ u[p] = t[p - n] /\ u[p] \in last
  BY <1>5, <1>7, <1>9 DEF GoesThrough
<1>11. \A p \in 1 .. n + m : u[p] \in Placed
  BY <1>3, <1>10
<1>12. ASSUME NEW p \in 1 .. n + m, NEW q \in 1 .. n + m, p < q
       PROVE  u[p] < u[q]
  <2>1. CASE q \in 1 .. n
    <3>1. p \in 1 .. n
      BY <1>12, <2>1
    <3> QED BY <1>5, <1>7, <1>10, <1>12, <2>1, <3>1 DEF GoesThrough
  <2>2. CASE q \notin 1 .. n /\ p \in 1 .. n
    BY <1>6, <1>10, <2>2
  <2>3. CASE q \notin 1 .. n /\ p \notin 1 .. n
    <3>1. p - n \in 1 .. m /\ q - n \in 1 .. m /\ p - n < q - n
      BY <1>10, <1>12, <2>3
    <3>2. t[p - n] < t[q - n]
      BY <1>5, <1>7, <3>1 DEF GoesThrough
    <3> QED BY <1>10, <2>3, <3>2
  <2> QED BY <2>1, <2>2, <2>3
<1>13. ASSUME NEW i \in Placed
       PROVE  \E p \in 1 .. n + m : u[p] = i
  <2>1. CASE i \in main
    <3>1. PICK p \in 1 .. n : s[p] = i
      BY <1>5, <1>7, <2>1 DEF GoesThrough
    <3> QED BY <1>10, <3>1
  <2>2. CASE i \in last
    <3>1. PICK p \in 1 .. m : t[p] = i
      BY <1>5, <1>7, <2>2 DEF GoesThrough
    <3>2. n + p \in 1 .. n + m /\ n + p \notin 1 .. n /\ (n + p) - n = p
      OBVIOUS
    <3>3. u[n + p] = i
      BY <1>10, <3>1, <3>2
    <3> QED BY <3>2, <3>3
  <2> QED BY <1>3, <2>1, <2>2
<1>14. u = OrderedBody(wf)
  BY <1>4, <1>8 DEF OrderedBody
<1>15. GoesThrough(u, Placed)
  BY <1>9, <1>11, <1>12, <1>13 DEF GoesThrough
<1> QED BY <1>14, <1>15
-----------------------------------------------------------------------------
(***************************************************************************)
(* What is emitted for an item.                                            *)
(***************************************************************************)
\* The steps of the fork, and how often an item happens.
Branches == {i \in OfKind(wf, {"step"}) : InForkJoin(wf, i)}
Times(x) == Promise!Times(wf.body[x])

\* The item in whose place x is emitted.
Place(x) == IF x \in Branches THEN Head(ParallelSteps(wf)) ELSE x

\* The statement waits for the occurrence, or begins it; a receive does both.
Waits(st, k) == st.op \in {"get", "receive"} /\ st.of = k
Begins(st, k) == st.op \in {"start", "receive"} /\ st.of = k

\* A statement for an occurrence of one of items, that passes if it is wanted.
IsStatement(st, items) ==
  /\ \E x \in items : \E n \in 1 .. Times(x) : st.of = <<x, n>> /\ (st.op = "receive" <=> wf.body[x].kind = "signal")
                        /\ (Passes(st) <=> Promise!Wanted(wf.body[x]))
  /\ st.op \in {"start", "get", "receive"}

\* E is what is emitted for items: each occurrence once, the rounds of a loop
\* in turn, no branch waited for before all have begun.
IsBlock(E, items) ==
  /\ IsSequence(E)
  /\ \A p \in 1 .. Len(E) : IsStatement(E[p], items)
  /\ \A p, q \in 1 .. Len(E) : E[p].op = E[q].op /\ E[p].of = E[q].of => p = q
  /\ \A x \in items : \A n \in 1 .. Times(x) : \E p \in 1 .. Len(E) : Waits(E[p], <<x, n>>)
  /\ \A x \in items : \A n, m \in 1 .. Times(x) : \A p \in 1 .. Len(E) :
       n < m /\ Begins(E[p], <<x, m>>) => \E q \in 1 .. Len(E) : q < p /\ Waits(E[q], <<x, n>>)
  /\ \A x, y \in items : \A p \in 1 .. Len(E) :
       x \in Branches /\ y \in Branches /\ Waits(E[p], <<x, 1>>)
         => \E q \in 1 .. Len(E) : q < p /\ Begins(E[q], <<y, 1>>)

\* How often items of each kind happen.
LEMMA TimesIs ==
  ASSUME NEW x
  PROVE  /\ wf.body[x].kind \in {"step", "perform", "signal"} => Times(x) = 1
         /\ wf.body[x].kind = "timer" => Times(x) = IF wf.body[x].literal THEN 1 ELSE 0
         /\ wf.body[x].kind = "loop" => Times(x) = IF wf.body[x].count = None THEN 0 ELSE wf.body[x].count
  BY DEF Times, Promise!Times

\* No guarded succession leads to performs and branches, which are emitted
\* without a guard.
LEMMA NoGuardNeeded ==
  ASSUME Supported(wf), NEW x \in Placed, wf.body[x].kind = "step" => InForkJoin(wf, x)
  PROVE  Promise!Wanted(wf.body[x])
<1>1. SUFFICES ASSUME wf.body[x].kind \in {"step", "perform"}, NEW s \in DOMAIN wf.successions,
                      wf.successions[s].to = wf.body[x].name, wf.successions[s].guard # None
               PROVE  FALSE
  BY DEF Promise!Wanted
<1>2. x \in OfKind(wf, {"step", "perform"})
  BY <1>1 DEF OfKind, Placed
<1>3. wf.body[x].kind = "step" /\ ~InForkJoin(wf, x)
  BY <1>1, <1>2 DEF Supported
<1> QED BY <1>3

\* The guard of the other statements holds if their item is wanted.
LEMMA GuardIsWanted ==
  ASSUME IsWorkflow(wf), Supported(wf), NEW x \in Placed,
         wf.body[x].kind = "perform" \/ (wf.body[x].kind = "step" /\ ~InForkJoin(wf, x))
  PROVE  Guard(wf, wf.body[x]) \in wf.holds \cup {None} <=> Promise!Wanted(wf.body[x])
<1>1. CASE wf.body[x].kind = "perform"
  <2>1. Guard(wf, wf.body[x]) = None
    BY <1>1 DEF Guard
  <2>2. Promise!Wanted(wf.body[x])
    BY <1>1, NoGuardNeeded
  <2> QED BY <2>1, <2>2
<1>2. CASE wf.body[x].kind = "step"
  <2>1. PICK guarded : guarded = {s \in DOMAIN wf.successions :
                                    wf.successions[s].guard # None /\ wf.successions[s].to = wf.body[x].name}
    OBVIOUS
  <2>2. Guard(wf, wf.body[x]) = IF guarded # {} THEN wf.successions[Max(guarded)].guard ELSE None
    BY <1>2, <2>1 DEF Guard
  <2>3. CASE guarded = {}
    <3>1. \A s \in DOMAIN wf.successions : wf.successions[s].to = wf.body[x].name => wf.successions[s].guard = None
      BY <2>1, <2>3
    <3>2. Promise!Wanted(wf.body[x])
      BY <3>1 DEF Promise!Wanted
    <3> QED BY <2>2, <2>3, <3>2
  <2>4. CASE guarded # {}
    <3>1. PICK n \in Nat : DOMAIN wf.successions = 1 .. n
      BY SequenceFacts DEF IsWorkflow
    <3>2. guarded \in SUBSET (1 .. n)
      BY <2>1, <3>1
    <3>3. PICK m : m = Max(guarded) /\ m \in guarded
      BY <2>4, <3>1, <3>2, GreatestExists
    <3>4. PICK g : g = wf.successions[m].guard /\ g # None
      BY <2>1, <3>3
    <3>5. \A s \in DOMAIN wf.successions : wf.successions[s].to = wf.body[x].name => wf.successions[s].guard \in {None, g}
      BY <2>1, <3>3, <3>4 DEF Supported
    <3>6. Guard(wf, wf.body[x]) = g
      BY <2>2, <2>4, <3>3, <3>4
    <3>7. Promise!Wanted(wf.body[x]) <=> g \in wf.holds \cup {None}
      <4>1. wf.successions[m].to = wf.body[x].name /\ m \in DOMAIN wf.successions
        BY <2>1, <3>3
      <4> QED BY <1>2, <3>4, <3>5, <4>1 DEF Promise!Wanted
    <3> QED BY <3>6, <3>7
  <2> QED BY <2>3, <2>4
<1> QED BY <1>1, <1>2

\* A block of one occurrence.
LEMMA OneOccurrence ==
  ASSUME NEW x \in Placed \ Branches, NEW g, Times(x) = 1, wf.body[x].kind # "signal",
         g \in wf.holds \cup {None} <=> Promise!Wanted(wf.body[x])
  PROVE  IsBlock(Execute(<<x, 1>>, g), {x})
<1>1. PICK E : E = Execute(<<x, 1>>, g)
  OBVIOUS
<1>2. PICK a, b : a = Start(<<x, 1>>, g) /\ b = Get(<<x, 1>>, g) /\ E = <<a, b>>
  BY <1>1 DEF Execute
<1>3. E = <<a>> \o <<b>>
  BY <1>2, PairIs
<1>4. IsSequence(E) /\ Len(E) = 2 /\ E[1] = a /\ E[2] = b
  <2>1. IsSequence(<<a>>) /\ IsSequence(<<b>>)
    BY SingleFacts
  <2>2. IsSequence(E)
    BY <1>3, <2>1, ConcatFacts
  <2> QED BY <1>2, <2>2
<1>5. /\ a.op = "start" /\ a.of = <<x, 1>> /\ a.guard = g
      /\ b.op = "get" /\ b.of = <<x, 1>> /\ b.guard = g
  BY <1>2 DEF Start, Get
<1>6. \A p \in 1 .. 2 : p = 1 \/ p = 2
  OBVIOUS
<1>7. IsStatement(a, {x}) /\ IsStatement(b, {x})
  <2>1. (Passes(a) <=> Promise!Wanted(wf.body[x])) /\ (Passes(b) <=> Promise!Wanted(wf.body[x]))
    BY <1>5 DEF Passes
  <2>2. 1 \in 1 .. Times(x)
    OBVIOUS
  <2> QED BY <1>5, <2>1, <2>2 DEF IsStatement
<1>8. \A p \in 1 .. Len(E) : IsStatement(E[p], {x})
  BY <1>4, <1>6, <1>7
<1>9. \A p, q \in 1 .. Len(E) : E[p].op = E[q].op /\ E[p].of = E[q].of => p = q
  BY <1>4, <1>5, <1>6
<1>10. \A n \in 1 .. Times(x) : n = 1
  OBVIOUS
<1>11. \A n \in 1 .. Times(x) : \E p \in 1 .. Len(E) : Waits(E[p], <<x, n>>)
  BY <1>4, <1>5, <1>10 DEF Waits
<1>12. \A n, m \in 1 .. Times(x) : ~(n < m)
  BY <1>10
<1> QED BY <1>1, <1>4, <1>8, <1>9, <1>11, <1>12 DEF IsBlock

\* A block of one signal.
LEMMA ReceiveBlock ==
  ASSUME NEW x \in Placed \ Branches, wf.body[x].kind = "signal"
  PROVE  IsBlock(<<Receive(<<x, 1>>)>>, {x})
<1>1. PICK a, E : a = Receive(<<x, 1>>) /\ E = <<a>>
  OBVIOUS
<1>2. IsSequence(E) /\ Len(E) = 1 /\ E[1] = a
  BY <1>1, SingleFacts
<1>3. a.op = "receive" /\ a.of = <<x, 1>> /\ a.guard = None
  BY <1>1 DEF Receive
<1>4. \A p \in 1 .. 1 : p = 1
  OBVIOUS
<1>5. Times(x) = 1
  BY TimesIs
<1>6. IsStatement(a, {x})
  <2>1. Passes(a)
    BY <1>3 DEF Passes
  <2>2. Promise!Wanted(wf.body[x])
    BY DEF Promise!Wanted
  <2>3. 1 \in 1 .. Times(x)
    BY <1>5
  <2> QED BY <1>3, <2>1, <2>2, <2>3 DEF IsStatement
<1>7. \A n \in 1 .. Times(x) : n = 1
  BY <1>5
<1>8. \A n, m \in 1 .. Times(x) : ~(n < m)
  BY <1>7
<1>9. \A n \in 1 .. Times(x) : \E p \in 1 .. Len(E) : Waits(E[p], <<x, n>>)
  BY <1>2, <1>3, <1>7 DEF Waits
<1> QED BY <1>1, <1>2, <1>4, <1>6, <1>8, <1>9 DEF IsBlock

\* Nothing is emitted for what does not happen.
LEMMA NothingBlock ==
  ASSUME NEW items, \A x \in items : 1 .. Times(x) = {}
  PROVE  IsBlock(<<>>, items)
<1>1. 1 .. 0 = {}
  OBVIOUS
<1> QED BY <1>1, EmptyIsSequence DEF IsBlock

\* The rounds of a loop, one after the other.
LEMMA LoopBlock ==
  ASSUME NEW x \in Placed \ Branches, wf.body[x].kind = "loop", wf.body[x].count \in Nat, wf.body[x].count # None
  PROVE  IsBlock(EmitLoop(wf, x), {x})
<1>1. PICK c \in Nat : c = wf.body[x].count /\ c = Times(x)
  BY TimesIs
<1>2. PICK ss : ss = [n \in 1 .. c |-> Execute(<<x, n>>, None)]
  OBVIOUS
<1>3. IsSequence(ss) /\ Len(ss) = c /\ DOMAIN ss = 1 .. c
  <2>1. ss = [i \in 1 .. c |-> ss[i]]
    BY <1>2
  <2> QED BY <2>1, SequenceOf, SequenceFacts
<1>4. ASSUME NEW n \in 1 .. c
      PROVE  /\ IsSequence(ss[n]) /\ Len(ss[n]) = 2
             /\ ss[n][1] = Start(<<x, n>>, None) /\ ss[n][2] = Get(<<x, n>>, None)
  <2>1. PICK a, b : a = Start(<<x, n>>, None) /\ b = Get(<<x, n>>, None)
    OBVIOUS
  <2>2. ss[n] = <<a, b>>
    BY <1>2, <2>1 DEF Execute
  <2>3. ss[n] = <<a>> \o <<b>>
    BY <2>2, PairIs
  <2>4. IsSequence(<<a>>) /\ IsSequence(<<b>>)
    BY SingleFacts
  <2>5. IsSequence(ss[n])
    BY <2>3, <2>4, ConcatFacts
  <2> QED BY <2>1, <2>2, <2>5
<1>5. PICK E : E = FlattenSeq(ss) /\ E = EmitLoop(wf, x)
  BY <1>1, <1>2 DEF EmitLoop
<1>6. \A n \in DOMAIN ss : IsSequence(ss[n])
  BY <1>3, <1>4
<1>7. IsSequence(E) /\ Len(E) \in Nat
  BY <1>3, <1>5, <1>6, FlattenIsSequence, SequenceFacts
<1>8. PICK b, o : FlattenedBy(E, ss, b, o)
  BY <1>3, <1>5, <1>6, FlattenBlocks
<1>9. ASSUME NEW p \in 1 .. Len(E)
      PROVE  /\ b[p] \in 1 .. c /\ o[p] \in {1, 2}
             /\ E[p] = IF o[p] = 1 THEN Start(<<x, b[p]>>, None) ELSE Get(<<x, b[p]>>, None)
  <2>1. b[p] \in 1 .. c /\ o[p] \in 1 .. Len(ss[b[p]]) /\ E[p] = ss[b[p]][o[p]]
    BY <1>3, <1>8 DEF FlattenedBy
  <2>2. o[p] \in 1 .. 2
    <3>1. Len(ss[b[p]]) = 2
      BY <1>4, <2>1
    <3> QED BY <2>1, <3>1
  <2>3. o[p] = 1 \/ (o[p] = 2 /\ o[p] # 1)
    BY <2>2
  <2> QED BY <1>4, <2>1, <2>3
<1>10. ASSUME NEW p \in 1 .. Len(E)
       PROVE  /\ E[p].of = <<x, b[p]>> /\ E[p].guard = None
              /\ o[p] = 1 => E[p].op = "start"
              /\ o[p] = 2 => E[p].op = "get"
  <2>1. CASE o[p] = 1
    <3>1. E[p] = Start(<<x, b[p]>>, None)
      BY <1>9, <2>1
    <3> QED BY <2>1, <3>1 DEF Start
  <2>2. CASE o[p] = 2
    <3>1. E[p] = Get(<<x, b[p]>>, None)
      BY <1>9, <2>2
    <3> QED BY <2>2, <3>1 DEF Get
  <2> QED BY <1>9, <2>1, <2>2
<1>11. Promise!Wanted(wf.body[x])
  BY DEF Promise!Wanted
<1>12. \A p \in 1 .. Len(E) : IsStatement(E[p], {x})
  <2> SUFFICES ASSUME NEW p \in 1 .. Len(E)
               PROVE  IsStatement(E[p], {x})
    OBVIOUS
  <2>1. Passes(E[p])
    BY <1>10 DEF Passes
  <2>2. E[p].op \in {"start", "get"}
    BY <1>9, <1>10
  <2>3. b[p] \in 1 .. Times(x) /\ E[p].of = <<x, b[p]>>
    BY <1>1, <1>9, <1>10
  <2>4. wf.body[x].kind # "signal" /\ E[p].op # "receive"
    BY <2>2
  <2> QED BY <1>11, <2>1, <2>2, <2>3, <2>4 DEF IsStatement
<1>13. \A p, q \in 1 .. Len(E) : E[p].op = E[q].op /\ E[p].of = E[q].of => p = q
  <2> SUFFICES ASSUME NEW p \in 1 .. Len(E), NEW q \in 1 .. Len(E), E[p].op = E[q].op, E[p].of = E[q].of
               PROVE  p = q
    OBVIOUS
  <2>1. b[p] = b[q]
    BY <1>10
  <2>2. o[p] = o[q]
    <3>1. o[p] \in {1, 2} /\ o[q] \in {1, 2}
      BY <1>9
    <3>2. /\ (o[p] = 1 => E[p].op = "start") /\ (o[p] = 2 => E[p].op = "get")
          /\ (o[q] = 1 => E[q].op = "start") /\ (o[q] = 2 => E[q].op = "get")
      BY <1>10
    <3> QED BY <3>1, <3>2
  <2> QED BY <1>3, <1>6, <1>7, <1>8, <2>1, <2>2, FlattenOrder
<1>14. ASSUME NEW n \in 1 .. Times(x)
       PROVE  \E p \in 1 .. Len(E) : b[p] = n /\ o[p] = 2 /\ Waits(E[p], <<x, n>>)
  <2>1. n \in 1 .. Len(ss) /\ 2 \in 1 .. Len(ss[n])
    <3>1. n \in 1 .. c
      BY <1>1
    <3>2. Len(ss[n]) = 2
      BY <1>4, <3>1
    <3> QED BY <1>3, <3>1, <3>2
  <2>a. \A i \in 1 .. Len(ss) : \A e \in 1 .. Len(ss[i]) : \E p \in 1 .. Len(E) : b[p] = i /\ o[p] = e
    BY <1>8 DEF FlattenedBy
  <2>2. PICK p \in 1 .. Len(E) : b[p] = n /\ o[p] = 2
    BY <2>1, <2>a
  <2> QED BY <1>10, <2>2 DEF Waits
<1>15. ASSUME NEW n \in 1 .. Times(x), NEW m \in 1 .. Times(x), NEW p \in 1 .. Len(E), n < m, Begins(E[p], <<x, m>>)
       PROVE  \E q \in 1 .. Len(E) : q < p /\ Waits(E[q], <<x, n>>)
  <2>1. PICK q \in 1 .. Len(E) : b[q] = n /\ Waits(E[q], <<x, n>>)
    BY <1>14
  <2>2. b[p] = m
    BY <1>10, <1>15 DEF Begins
  <2>3. b[q] < b[p]
    BY <1>15, <2>1, <2>2
  <2>4. q < p
    BY <1>3, <1>6, <1>7, <1>8, <2>3, FlattenOrder
  <2> QED BY <2>1, <2>4
<1>16. IsBlock(E, {x})
  BY <1>7, <1>12, <1>13, <1>14, <1>15 DEF IsBlock
<1> QED BY <1>5, <1>16

\* The branches, all begun before one is waited for.
LEMMA BranchesBlock ==
  ASSUME IsWorkflow(wf), Supported(wf)
  PROVE  IsBlock(EmitParallel(wf), Branches)
<1>1. PICK P : P = ParallelSteps(wf) /\ GoesThrough(P, Branches)
  <2>1. Branches \in SUBSET DOMAIN wf.body
    BY DEF Branches, OfKind
  <2> QED BY <2>1, InOrderGoes DEF IsWorkflow, ParallelSteps, Branches
<1>2. PICK k \in Nat : k = Len(P) /\ DOMAIN P = 1 .. k
  BY <1>1, SequenceFacts DEF GoesThrough
<1>3. PICK s, g : /\ s = [j \in 1 .. k |-> Start(<<P[j], 1>>, None)]
                  /\ g = [j \in 1 .. k |-> Get(<<P[j], 1>>, None)]
  OBVIOUS
<1>4. IsSequence(s) /\ IsSequence(g) /\ Len(s) = k /\ Len(g) = k
  <2>1. s = [j \in 1 .. k |-> s[j]] /\ g = [j \in 1 .. k |-> g[j]]
    BY <1>3
  <2> QED BY <2>1, SequenceOf
<1>5. PICK E : E = s \o g /\ E = EmitParallel(wf)
  BY <1>1, <1>2, <1>3 DEF EmitParallel
<1>6. /\ IsSequence(E) /\ Len(E) = k + k
      /\ \A p \in 1 .. k + k : E[p] = IF p <= k THEN s[p] ELSE g[p - k]
  <2>1. /\ IsSequence(E) /\ Len(E) = Len(s) + Len(g)
        /\ \A p \in 1 .. Len(s) + Len(g) : E[p] = IF p <= Len(s) THEN s[p] ELSE g[p - Len(s)]
    <3>1. IsSequence(s) /\ IsSequence(g)
      BY <1>4
    <3>2. E = s \o g
      BY <1>5
    <3> QED BY <3>1, <3>2, ConcatFacts
  <2> QED BY <1>4, <2>1
<1>7. ASSUME NEW j \in 1 .. k
      PROVE  /\ j \in 1 .. k + k /\ E[j] = Start(<<P[j], 1>>, None)
             /\ k + j \in 1 .. k + k /\ E[k + j] = Get(<<P[j], 1>>, None)
  <2>1. j \in 1 .. k + k /\ j <= k /\ k + j \in 1 .. k + k /\ ~(k + j <= k) /\ (k + j) - k = j
    OBVIOUS
  <2> QED BY <1>3, <1>6, <2>1
<1>8. ASSUME NEW p \in 1 .. k + k
      PROVE  \E j \in 1 .. k : p = j \/ p = k + j
  <2>1. CASE p <= k
    BY <2>1
  <2>2. CASE ~(p <= k)
    <3>1. p - k \in 1 .. k /\ p = k + (p - k)
      BY <2>2
    <3> QED BY <3>1
  <2> QED BY <2>1, <2>2
<1>9. ASSUME NEW j \in 1 .. k
      PROVE  /\ E[j].op = "start" /\ E[j].of = <<P[j], 1>> /\ E[j].guard = None
             /\ E[k + j].op = "get" /\ E[k + j].of = <<P[j], 1>> /\ E[k + j].guard = None
  <2>1. PICK a : a = E[j] /\ a = Start(<<P[j], 1>>, None)
    BY <1>7
  <2>2. PICK b : b = E[k + j] /\ b = Get(<<P[j], 1>>, None)
    BY <1>7
  <2>3. a.op = "start" /\ a.of = <<P[j], 1>> /\ a.guard = None
    BY <2>1 DEF Start
  <2>4. b.op = "get" /\ b.of = <<P[j], 1>> /\ b.guard = None
    BY <2>2 DEF Get
  <2> QED BY <2>1, <2>2, <2>3, <2>4
<1>10. \A x \in Branches : /\ x \in Placed /\ wf.body[x].kind = "step" /\ Times(x) = 1
                           /\ Promise!Wanted(wf.body[x])
  <2> SUFFICES ASSUME NEW x \in Branches
               PROVE  /\ x \in Placed /\ wf.body[x].kind = "step" /\ Times(x) = 1
                      /\ Promise!Wanted(wf.body[x])
    OBVIOUS
  <2>1. x \in Placed /\ wf.body[x].kind = "step" /\ InForkJoin(wf, x)
    BY DEF Branches, Placed, OfKind
  <2> QED BY <2>1, TimesIs, NoGuardNeeded
<1>11. ASSUME NEW j \in 1 .. k
       PROVE  IsStatement(E[j], Branches) /\ IsStatement(E[k + j], Branches)
  <2>1. PICK x \in Branches : x = P[j]
    BY <1>1, <1>2 DEF GoesThrough
  <2>2. 1 \in 1 .. Times(x)
    BY <1>10
  <2>3. Passes(E[j]) /\ Passes(E[k + j])
    BY <1>9 DEF Passes
  <2>4. Promise!Wanted(wf.body[x]) /\ wf.body[x].kind # "signal"
    BY <1>10
  <2> QED BY <1>9, <2>1, <2>2, <2>3, <2>4 DEF IsStatement
<1>12. \A p \in 1 .. k + k : IsStatement(E[p], Branches)
  BY <1>8, <1>11
<1>13. ASSUME NEW p \in 1 .. k + k, NEW q \in 1 .. k + k, E[p].op = E[q].op, E[p].of = E[q].of
       PROVE  p = q
  <2>1. PICK i \in 1 .. k : p = i \/ p = k + i
    BY <1>8
  <2>2. PICK j \in 1 .. k : q = j \/ q = k + j
    BY <1>8
  <2>3. P[i] = P[j]
    BY <1>9, <1>13, <2>1, <2>2
  <2>4. i = j
    <3>1. P[i] \in Int /\ P[j] \in Int
      <4>1. \A x \in Branches : x \in Int
        BY SequenceFacts DEF Branches, OfKind, IsWorkflow
      <4> QED BY <1>1, <1>2, <4>1 DEF GoesThrough
    <3>2. ~(P[i] < P[j]) /\ ~(P[j] < P[i])
      BY <2>3, <3>1
    <3>3. ~(i < j) /\ ~(j < i)
      BY <1>1, <1>2, <3>2 DEF GoesThrough
    <3> QED BY <3>3
  <2> QED BY <1>9, <1>13, <2>1, <2>2, <2>4
<1>14. ASSUME NEW x \in Branches
       PROVE  \E j \in 1 .. k : P[j] = x
  BY <1>1, <1>2 DEF GoesThrough
<1>15. ASSUME NEW x \in Branches, NEW n \in 1 .. Times(x)
       PROVE  \E p \in 1 .. k + k : Waits(E[p], <<x, n>>)
  <2>1. n = 1
    BY <1>10
  <2>2. PICK j \in 1 .. k : P[j] = x
    BY <1>14
  <2> QED BY <1>7, <1>9, <2>1, <2>2 DEF Waits
<1>16. \A x \in Branches : \A n, m \in 1 .. Times(x) : ~(n < m)
  BY <1>10
<1>17. ASSUME NEW x \in Branches, NEW y \in Branches, NEW p \in 1 .. k + k, Waits(E[p], <<x, 1>>)
       PROVE  \E q \in 1 .. k + k : q < p /\ Begins(E[q], <<y, 1>>)
  <2>1. PICK j \in 1 .. k : P[j] = y
    BY <1>14
  <2>2. PICK i \in 1 .. k : p = i \/ p = k + i
    BY <1>8
  <2>3. p # i
    BY <1>9, <1>17 DEF Waits
  <2>4. j < p
    BY <2>2, <2>3
  <2> QED BY <1>7, <1>9, <2>1, <2>4 DEF Begins
<1>18. /\ \A p \in 1 .. Len(E) : IsStatement(E[p], Branches)
       /\ \A p, q \in 1 .. Len(E) : E[p].op = E[q].op /\ E[p].of = E[q].of => p = q
       /\ \A x \in Branches : \A n \in 1 .. Times(x) : \E p \in 1 .. Len(E) : Waits(E[p], <<x, n>>)
       /\ \A x, y \in Branches : \A p \in 1 .. Len(E) :
            Waits(E[p], <<x, 1>>) => \E q \in 1 .. Len(E) : q < p /\ Begins(E[q], <<y, 1>>)
  BY <1>6, <1>12, <1>13, <1>15, <1>17
<1>19. IsBlock(E, Branches)
  BY <1>6, <1>16, <1>18 DEF IsBlock
<1> QED BY <1>5, <1>19
-----------------------------------------------------------------------------
(***************************************************************************)
(* The generated program.                                                  *)
(***************************************************************************)
\* The first branch is the place of all.
LEMMA FirstBranch ==
  ASSUME IsWorkflow(wf), NEW x \in Branches
  PROVE  Head(ParallelSteps(wf)) \in Branches /\ Head(ParallelSteps(wf)) <= x
<1>1. PICK P : P = ParallelSteps(wf) /\ GoesThrough(P, Branches)
  <2>1. Branches \in SUBSET DOMAIN wf.body
    BY DEF Branches, OfKind
  <2> QED BY <2>1, InOrderGoes DEF IsWorkflow, ParallelSteps, Branches
<1>2. PICK k \in Nat : k = Len(P)
  BY <1>1, SequenceFacts DEF GoesThrough
<1>3. PICK j \in 1 .. k : P[j] = x
  BY <1>1, <1>2 DEF GoesThrough
<1>4. P # <<>>
  BY <1>2, <1>3, EmptyIsSequence
<1>5. Head(P) = P[1]
  BY <1>1, <1>4, HeadAndTail DEF GoesThrough
<1>6. 1 \in 1 .. k /\ (1 = j \/ 1 < j)
  BY <1>3
<1>7. P[1] \in Branches
  BY <1>1, <1>2, <1>6 DEF GoesThrough
<1>8. P[1] \in Int /\ x \in Int
  BY <1>7, SequenceFacts DEF Branches, OfKind, IsWorkflow
<1>9. P[1] = x \/ P[1] < x
  BY <1>1, <1>2, <1>3, <1>6 DEF GoesThrough
<1> QED BY <1>1, <1>5, <1>7, <1>8, <1>9

\* The items that are emitted in the place of i.
ItemsAt(i) == {x \in Placed : Place(x) = i}

\* Whatever its kind, an item is emitted as a block.
LEMMA ItemBlock ==
  ASSUME IsWorkflow(wf), Supported(wf), NEW i \in Placed
  PROVE  IsBlock(EmitItem(wf, i), ItemsAt(i))
<1>1. wf.body[i].kind \in {"step", "signal", "timer", "loop", "perform"}
  BY DEF Placed, OfKind
<1>2. \A x \in Branches : wf.body[x].kind = "step" /\ x \in Placed /\ InForkJoin(wf, x)
  BY DEF Branches, Placed, OfKind
<1>3. ASSUME i \notin Branches
      PROVE  ItemsAt(i) = {i}
  <2>1. \A x \in Branches : Place(x) # i
    BY <1>3, FirstBranch DEF Place
  <2>2. \A x \in Placed : x \notin Branches => Place(x) = x
    BY DEF Place
  <2> QED BY <1>3, <2>1, <2>2 DEF ItemsAt
<1>4. CASE wf.body[i].kind = "loop"
  <2>1. i \notin Branches
    BY <1>2, <1>4
  <2>2. EmitItem(wf, i) = EmitLoop(wf, i)
    BY <1>4 DEF EmitItem
  <2>3. CASE wf.body[i].count = None
    <3>1. EmitItem(wf, i) = <<>>
      BY <2>2, <2>3 DEF EmitLoop
    <3>2. Times(i) = 0
      BY <1>4, <2>3, TimesIs
    <3>3. 1 .. Times(i) = {}
      BY <3>2
    <3> QED BY <1>3, <2>1, <3>1, <3>3, NothingBlock
  <2>4. CASE wf.body[i].count # None
    <3>1. wf.body[i].count \in Nat
      <4>1. i \in OfKind(wf, {"loop"})
        BY <1>4 DEF Placed, OfKind
      <4> QED BY <2>4, <4>1 DEF IsWorkflow
    <3> QED BY <1>3, <1>4, <2>1, <2>2, <2>4, <3>1, LoopBlock
  <2> QED BY <2>3, <2>4
<1>5. CASE wf.body[i].kind = "signal"
  <2>1. i \notin Branches
    BY <1>2, <1>5
  <2>2. EmitItem(wf, i) = <<Receive(<<i, 1>>)>>
    BY <1>5 DEF EmitItem
  <2> QED BY <1>3, <1>5, <2>1, <2>2, ReceiveBlock
<1>6. CASE wf.body[i].kind = "timer"
  <2>1. i \notin Branches
    BY <1>2, <1>6
  <2>2. EmitItem(wf, i) = IF wf.body[i].literal THEN Execute(<<i, 1>>, None) ELSE <<>>
    BY <1>6 DEF EmitItem
  <2>3. CASE wf.body[i].literal
    <3>1. Times(i) = 1
      BY <1>6, <2>3, TimesIs
    <3>2. Promise!Wanted(wf.body[i])
      BY <1>6, NoGuardNeeded
    <3> QED BY <1>3, <1>6, <2>1, <2>2, <2>3, <3>1, <3>2, OneOccurrence
  <2>4. CASE ~wf.body[i].literal
    <3>1. Times(i) = 0
      BY <1>6, <2>4, TimesIs
    <3>2. 1 .. Times(i) = {}
      BY <3>1
    <3>3. EmitItem(wf, i) = <<>>
      BY <2>2, <2>4
    <3> QED BY <1>3, <2>1, <3>2, <3>3, NothingBlock
  <2> QED BY <2>3, <2>4
<1>7. CASE wf.body[i].kind = "perform" \/ (wf.body[i].kind = "step" /\ ~InForkJoin(wf, i))
  <2>1. i \notin Branches
    BY <1>2, <1>7
  <2>2. EmitItem(wf, i) = Execute(<<i, 1>>, Guard(wf, wf.body[i]))
    BY <1>7 DEF EmitItem, EmitStep
  <2>3. Times(i) = 1 /\ wf.body[i].kind # "signal"
    BY <1>7, TimesIs
  <2>4. Guard(wf, wf.body[i]) \in wf.holds \cup {None} <=> Promise!Wanted(wf.body[i])
    BY <1>7, GuardIsWanted
  <2> QED BY <1>3, <2>1, <2>2, <2>3, <2>4, OneOccurrence
<1>8. CASE wf.body[i].kind = "step" /\ InForkJoin(wf, i)
  <2>1. i \in Branches
    BY <1>8 DEF Branches, Placed, OfKind
  <2>2. EmitItem(wf, i) = IF i = Head(ParallelSteps(wf)) THEN EmitParallel(wf) ELSE <<>>
    BY <1>8 DEF EmitItem, EmitStep
  <2>3. ItemsAt(i) = IF i = Head(ParallelSteps(wf)) THEN Branches ELSE {}
    BY <1>2, <2>1 DEF ItemsAt, Place
  <2>4. CASE i = Head(ParallelSteps(wf))
    BY <2>2, <2>3, <2>4, BranchesBlock
  <2>5. CASE i # Head(ParallelSteps(wf))
    BY <2>2, <2>3, <2>5, NothingBlock
  <2> QED BY <2>4, <2>5
<1> QED BY <1>1, <1>4, <1>5, <1>6, <1>7, <1>8

\* What is due is an occurrence of something that is emitted.
LEMMA DueIs ==
  ASSUME NEW k \in Promise!Due
  PROVE  \E x \in Placed : \E n \in 1 .. Times(x) : k = <<x, n>> /\ k[1] = x /\ k[2] = n /\ Promise!Wanted(wf.body[x])
<1>1. PICK x \in DOMAIN wf.body : k \in {x} \X (1 .. Promise!Times(wf.body[x]))
  BY DEF Promise!Due
<1>2. PICK n \in 1 .. Times(x) : k = <<x, n>>
  BY <1>1 DEF Times
<1>3. x \in Placed
  <2>1. SUFFICES ASSUME x \notin Placed
                 PROVE  FALSE
    OBVIOUS
  <2>2. Times(x) = 0
    BY <2>1 DEF Placed, OfKind, Times, Promise!Times
  <2>3. 1 .. Times(x) = {}
    BY <2>2
  <2> QED BY <1>2, <2>3
<1>4. Promise!Wanted(wf.body[x])
  BY <1>2 DEF Promise!Due, Promise!Item
<1> QED BY <1>2, <1>3, <1>4

\* What is behind the only fork and before the only join is parallel.
LEMMA BranchesParallel ==
  ASSUME IsWorkflow(wf), Supported(wf), NEW x \in DOMAIN wf.body, NEW y \in DOMAIN wf.body,
         y < x, \E f \in OfKind(wf, {"fork"}) : f < y, \E g \in OfKind(wf, {"join"}) : x < g
  PROVE  Promise!Parallel(y, x)
<1>1. PICK l \in Nat : DOMAIN wf.body = 1 .. l /\ l = Len(wf.body)
  BY SequenceFacts DEF IsWorkflow
<1>2. PICK f \in OfKind(wf, {"fork"}), g \in OfKind(wf, {"join"}) : f < y /\ x < g
  OBVIOUS
<1>3. /\ f \in 1 .. l /\ g \in 1 .. l /\ wf.body[f].kind = "fork" /\ wf.body[g].kind = "join"
  BY <1>1, <1>2 DEF OfKind
<1>4. x \in 1 .. l /\ y \in 1 .. l
  BY <1>1
<1>5. f \in 1 .. (y - 1) /\ g \in (x + 1) .. Len(wf.body)
  BY <1>1, <1>2, <1>3, <1>4
<1>6. \A c \in (f + 1) .. (g - 1) : wf.body[c].kind \notin {"fork", "join"}
  <2> SUFFICES ASSUME NEW c \in (f + 1) .. (g - 1), wf.body[c].kind \in {"fork", "join"}
               PROVE  FALSE
    OBVIOUS
  <2>1. c \in 1 .. l /\ c # f /\ c # g
    BY <1>3
  <2>2. c \in OfKind(wf, {wf.body[c].kind})
    BY <1>1, <2>1 DEF OfKind
  <2>3. CASE wf.body[c].kind = "fork"
    BY <2>1, <2>2, <2>3 DEF Supported
  <2>4. CASE wf.body[c].kind = "join"
    BY <2>1, <2>2, <2>4 DEF Supported
  <2> QED BY <2>3, <2>4
<1> QED BY <1>3, <1>5, <1>6 DEF Promise!Parallel

\* What comes first has its place first.
LEMMA PlacesFollow ==
  ASSUME IsWorkflow(wf), Supported(wf), NEW x \in Placed, NEW y \in Placed, y < x, ~Promise!Parallel(y, x)
  PROVE  Place(y) < Place(x)
<1>1. x \in DOMAIN wf.body /\ y \in DOMAIN wf.body /\ x \in Int /\ y \in Int /\ Branches \subseteq Int
  BY SequenceFacts DEF Placed, Branches, OfKind, IsWorkflow
<1>2. ~((\E f \in OfKind(wf, {"fork"}) : f < y) /\ (\E g \in OfKind(wf, {"join"}) : x < g))
  BY <1>1, BranchesParallel
<1>3. PICK h : h = Head(ParallelSteps(wf))
  OBVIOUS
<1>4. \A z \in Branches : /\ h \in Branches /\ h \in Int /\ h <= z
                          /\ \E f \in OfKind(wf, {"fork"}) : f < z
                          /\ \E g \in OfKind(wf, {"join"}) : z < g
  BY <1>1, <1>3, FirstBranch DEF Branches, InForkJoin
<1>5. CASE x \in Branches /\ y \in Branches
  BY <1>2, <1>4, <1>5
<1>6. CASE x \notin Branches /\ y \in Branches
  <2>1. Place(y) = h /\ Place(x) = x
    BY <1>3, <1>6 DEF Place
  <2> QED BY <1>1, <1>4, <1>6, <2>1
<1>7. CASE x \notin Branches /\ y \notin Branches
  BY <1>7 DEF Place
<1>8. CASE x \in Branches /\ y \notin Branches
  <2>1. Place(y) = y /\ Place(x) = h
    BY <1>3, <1>8 DEF Place
  <2>2. h \in Branches /\ h \in Int
    BY <1>4, <1>8
  <2>3. h # y
    BY <1>8, <2>2
  <2>4. ~(h < y)
    <3>1. SUFFICES ASSUME h < y
                   PROVE  FALSE
      OBVIOUS
    <3>2. PICK f \in OfKind(wf, {"fork"}) : f < h
      BY <1>4, <2>2
    <3>3. f \in Int
      BY SequenceFacts DEF OfKind, IsWorkflow
    <3>4. f < y
      BY <1>1, <2>2, <3>1, <3>2, <3>3
    <3>5. \E g \in OfKind(wf, {"join"}) : x < g
      BY <1>4, <1>8
    <3> QED BY <1>2, <3>4, <3>5
  <2> QED BY <1>1, <2>1, <2>2, <2>3, <2>4
<1> QED BY <1>5, <1>6, <1>7, <1>8

\* What a program must be for its executions to do what the workflow asks for.
IsOrderly(P) ==
  /\ IsSequence(P)
  /\ \A p \in 1 .. Len(P) : IsStatement(P[p], Placed)
  /\ \A p, q \in 1 .. Len(P) : P[p].op = P[q].op /\ P[p].of = P[q].of => p = q
  /\ \A x \in Placed : \A n \in 1 .. Times(x) : \E p \in 1 .. Len(P) : Waits(P[p], <<x, n>>)
  /\ \A k \in Promise!Due : \A m \in Promise!Before(k) : \A p \in 1 .. Len(P) :
       Begins(P[p], k) => \E q \in 1 .. Len(P) : q < p /\ Waits(P[q], m)
  /\ \A x, y \in Branches : \A p \in 1 .. Len(P) :
       Waits(P[p], <<x, 1>>) => \E q \in 1 .. Len(P) : q < p /\ Begins(P[q], <<y, 1>>)

\* The generated program is.
LEMMA ProgramIsOrderly ==
  ASSUME IsWorkflow(wf), Supported(wf)
  PROVE  IsOrderly(GenerateWorkflow(wf))
<1>1. PICK B : B = OrderedBody(wf) /\ GoesThrough(B, Placed)
  BY OrderedBodyGoes
<1>2. PICK k \in Nat : k = Len(B) /\ DOMAIN B = 1 .. k
  BY <1>1, SequenceFacts DEF GoesThrough
<1>3. PICK ss : ss = [j \in 1 .. k |-> EmitItem(wf, B[j])]
  OBVIOUS
<1>4. IsSequence(ss) /\ Len(ss) = k /\ DOMAIN ss = 1 .. k
  <2>1. ss = [i \in 1 .. k |-> ss[i]]
    BY <1>3
  <2> QED BY <2>1, SequenceOf, SequenceFacts
<1>5. \A j \in 1 .. k : B[j] \in Placed /\ IsBlock(ss[j], ItemsAt(B[j]))
  <2> SUFFICES ASSUME NEW j \in 1 .. k
               PROVE  B[j] \in Placed /\ IsBlock(ss[j], ItemsAt(B[j]))
    OBVIOUS
  <2>1. B[j] \in Placed
    BY <1>1, <1>2 DEF GoesThrough
  <2>2. ss[j] = EmitItem(wf, B[j])
    BY <1>3
  <2> QED BY <2>1, <2>2, ItemBlock
<1>6. \A j \in DOMAIN ss : IsSequence(ss[j])
  BY <1>4, <1>5 DEF IsBlock
<1>7. PICK P : P = FlattenSeq(ss) /\ P = GenerateWorkflow(wf)
  BY <1>1, <1>2, <1>3 DEF GenerateWorkflow
<1>8. IsSequence(P) /\ Len(P) \in Nat
  BY <1>4, <1>6, <1>7, FlattenIsSequence, SequenceFacts
<1>9. PICK b, o : FlattenedBy(P, ss, b, o)
  BY <1>4, <1>6, <1>7, FlattenBlocks
<1>10. ASSUME NEW p \in 1 .. Len(P)
       PROVE  b[p] \in 1 .. k /\ o[p] \in 1 .. Len(ss[b[p]]) /\ P[p] = ss[b[p]][o[p]]
  BY <1>4, <1>9 DEF FlattenedBy
<1>11. ASSUME NEW p \in 1 .. Len(P), NEW q \in 1 .. Len(P)
       PROVE  /\ b[p] < b[q] => p < q
              /\ b[p] = b[q] /\ o[p] < o[q] => p < q
              /\ b[p] = b[q] /\ o[p] = o[q] => p = q
  BY <1>4, <1>6, <1>8, <1>9, FlattenOrder
<1>12. ASSUME NEW j \in 1 .. k, NEW e \in 1 .. Len(ss[j])
       PROVE  \E p \in 1 .. Len(P) : b[p] = j /\ o[p] = e /\ P[p] = ss[j][e]
  BY <1>4, <1>9 DEF FlattenedBy
\* What is emitted for x is in its place.
<1>13. ASSUME NEW p \in 1 .. Len(P)
       PROVE  IsStatement(P[p], ItemsAt(B[b[p]]))
  BY <1>5, <1>10 DEF IsBlock
<1>14. ASSUME NEW p \in 1 .. Len(P), NEW x, NEW n, P[p].of = <<x, n>>
       PROVE  x \in Placed /\ x \in ItemsAt(B[b[p]]) /\ Place(x) = B[b[p]] /\ n \in 1 .. Times(x)
  BY <1>13, <1>14 DEF IsStatement, ItemsAt
<1>15. ASSUME NEW x \in Placed
       PROVE  \E j \in 1 .. k : Place(x) = B[j] /\ x \in ItemsAt(B[j])
  <2>1. Place(x) \in Placed
    <3>1. \A y \in Branches : y \in Placed
      BY DEF Branches, Placed, OfKind
    <3> QED BY <3>1, FirstBranch DEF Place
  <2> QED BY <1>1, <1>2, <2>1 DEF GoesThrough, ItemsAt
<1>16. \A i, j \in 1 .. k : /\ B[i] = B[j] => i = j
                            /\ B[i] < B[j] => i < j
  <2> SUFFICES ASSUME NEW i \in 1 .. k, NEW j \in 1 .. k
               PROVE  (B[i] = B[j] => i = j) /\ (B[i] < B[j] => i < j)
    OBVIOUS
  <2>1. B[i] \in Int /\ B[j] \in Int
    BY <1>5, SequenceFacts DEF Placed, OfKind, IsWorkflow
  <2>2. (i < j => B[i] < B[j]) /\ (j < i => B[j] < B[i])
    BY <1>1, <1>2 DEF GoesThrough
  <2> QED BY <2>1, <2>2
<1>17. \A p \in 1 .. Len(P) : IsStatement(P[p], Placed)
  BY <1>13 DEF IsStatement, ItemsAt
<1>18. ASSUME NEW p \in 1 .. Len(P), NEW q \in 1 .. Len(P), P[p].op = P[q].op, P[p].of = P[q].of
       PROVE  p = q
  <2>1. PICK x, n : P[p].of = <<x, n>>
    BY <1>13 DEF IsStatement
  <2>2. B[b[p]] = B[b[q]]
    <3>1. P[q].of = <<x, n>>
      BY <1>18, <2>1
    <3>2. Place(x) = B[b[p]]
      BY <1>14, <2>1
    <3>3. Place(x) = B[b[q]]
      BY <1>14, <3>1
    <3> QED BY <3>2, <3>3
  <2>3. b[p] = b[q]
    BY <1>10, <1>16, <2>2
  <2>4. o[p] = o[q]
    <3>1. PICK E : E = ss[b[p]] /\ IsBlock(E, ItemsAt(B[b[p]]))
      BY <1>5, <1>10
    <3>2. /\ o[p] \in 1 .. Len(E) /\ o[q] \in 1 .. Len(E)
          /\ E[o[p]].op = E[o[q]].op /\ E[o[p]].of = E[o[q]].of
      BY <1>10, <1>18, <2>3, <3>1
    <3> QED BY <3>1, <3>2 DEF IsBlock
  <2> QED BY <1>11, <2>3, <2>4
<1>19. ASSUME NEW x \in Placed, NEW n \in 1 .. Times(x)
       PROVE  \E p \in 1 .. Len(P) : Waits(P[p], <<x, n>>)
  <2>1. PICK j \in 1 .. k : x \in ItemsAt(B[j])
    BY <1>15
  <2>2. PICK e \in 1 .. Len(ss[j]) : Waits(ss[j][e], <<x, n>>)
    BY <1>5, <2>1 DEF IsBlock
  <2> QED BY <1>12, <2>2
<1>20. ASSUME NEW d \in Promise!Due, NEW m \in Promise!Before(d), NEW p \in 1 .. Len(P), Begins(P[p], d)
       PROVE  \E q \in 1 .. Len(P) : q < p /\ Waits(P[q], m)
  <2>1. PICK x, n : x \in Placed /\ n \in 1 .. Times(x) /\ d = <<x, n>> /\ d[1] = x /\ d[2] = n
    BY DueIs
  <2>2. m \in Promise!Due /\ ((m[1] = d[1] /\ m[2] < d[2]) \/ (m[1] < d[1] /\ ~Promise!Parallel(m[1], d[1])))
    BY DEF Promise!Before
  <2>3. PICK y, l : y \in Placed /\ l \in 1 .. Times(y) /\ m = <<y, l>> /\ m[1] = y /\ m[2] = l
    BY <2>2, DueIs
  <2>4. x \in ItemsAt(B[b[p]]) /\ Place(x) = B[b[p]]
    BY <1>14, <1>20, <2>1 DEF Begins
  <2>5. CASE y = x /\ l < n
    <3>a. PICK E : E = ss[b[p]] /\ IsBlock(E, ItemsAt(B[b[p]]))
      BY <1>5, <1>10
    <3>b. o[p] \in 1 .. Len(E) /\ Begins(E[o[p]], <<x, n>>)
      BY <1>10, <1>20, <2>1, <3>a
    <3>1. PICK e \in 1 .. Len(ss[b[p]]) : e < o[p] /\ Waits(ss[b[p]][e], <<x, l>>)
      BY <2>1, <2>3, <2>4, <2>5, <3>a, <3>b DEF IsBlock
    <3>c. b[p] \in 1 .. k
      BY <1>10
    <3>d. PICK j \in 1 .. k : j = b[p]
      BY <3>c
    <3>e. e \in 1 .. Len(ss[j])
      BY <3>1, <3>d
    <3>f. \E q \in 1 .. Len(P) : b[q] = j /\ o[q] = e /\ P[q] = ss[j][e]
      BY <1>12, <3>e
    <3>2. PICK q \in 1 .. Len(P) : b[q] = b[p] /\ o[q] = e /\ P[q] = ss[b[p]][e]
      BY <3>d, <3>f
    <3>3. q < p
      BY <1>11, <3>1, <3>2
    <3> QED BY <2>3, <2>5, <3>1, <3>2, <3>3
  <2>6. CASE y < x /\ ~Promise!Parallel(y, x)
    <3>1. Place(y) < Place(x)
      BY <2>1, <2>3, <2>6, PlacesFollow
    <3>2. PICK q \in 1 .. Len(P) : Waits(P[q], <<y, l>>)
      BY <1>19, <2>3
    <3>3. Place(y) = B[b[q]]
      BY <1>14, <3>2 DEF Waits
    <3>4. b[q] < b[p]
      BY <1>10, <1>16, <2>4, <3>1, <3>3
    <3>5. q < p
      BY <1>11, <3>4
    <3> QED BY <2>3, <3>2, <3>5
  <2> QED BY <2>1, <2>2, <2>3, <2>5, <2>6
<1>21. ASSUME NEW x \in Branches, NEW y \in Branches, NEW p \in 1 .. Len(P), Waits(P[p], <<x, 1>>)
       PROVE  \E q \in 1 .. Len(P) : q < p /\ Begins(P[q], <<y, 1>>)
  <2>1. x \in ItemsAt(B[b[p]]) /\ y \in ItemsAt(B[b[p]])
    <3>1. x \in ItemsAt(B[b[p]]) /\ Place(x) = B[b[p]]
      BY <1>14, <1>21 DEF Waits
    <3>2. Place(x) = Place(y)
      BY DEF Place
    <3>3. y \in Placed
      BY DEF Branches, Placed, OfKind
    <3> QED BY <3>1, <3>2, <3>3 DEF ItemsAt
  <2>2. PICK e \in 1 .. Len(ss[b[p]]) : e < o[p] /\ Begins(ss[b[p]][e], <<y, 1>>)
    BY <1>5, <1>10, <1>21, <2>1 DEF IsBlock
  <2>a. b[p] \in 1 .. k
    BY <1>10
  <2>3. PICK q \in 1 .. Len(P) : b[q] = b[p] /\ o[q] = e /\ P[q] = ss[b[p]][e]
    BY <1>12, <2>a
  <2>4. q < p
    BY <1>11, <2>2, <2>3
  <2> QED BY <2>2, <2>3, <2>4
<1>22. IsOrderly(P)
  BY <1>8, <1>17, <1>18, <1>19, <1>20, <1>21 DEF IsOrderly
<1> QED BY <1>7, <1>22
-----------------------------------------------------------------------------
(***************************************************************************)
(* Its execution.                                                          *)
(***************************************************************************)
\* Statements that the execution has passed, and not skipped.
Passed(p) == p \in 1 .. (pc - 1) /\ Passes(program[p])

\* The types of the variables, and that the program is the generated one.
TypeInv ==
  /\ wf \in Workflows /\ program = GenerateWorkflow(wf)
  /\ pc \in 1 .. (Len(program) + 1)
  /\ IsSequence(begun)
  /\ arrived \in [Signals -> Nat]

\* What was waited for has succeeded.
WaitedInv ==
  \A p \in 1 .. Len(program) :
    Passed(p) /\ program[p].op \in {"get", "receive"} => program[p].of \in succeeded

\* What was begun was begun by a statement, and the other way round.
BegunInv ==
  /\ \A p \in 1 .. Len(program) : Passed(p) /\ program[p].op = "start" => Promise!HasBegun(program[p].of)
  /\ \A b \in DOMAIN begun : \E p \in 1 .. Len(program) :
       Passed(p) /\ program[p].op = "start" /\ program[p].of = begun[b]

\* What has succeeded was begun or received.
SucceededInv ==
  \A k \in succeeded :
    \/ Promise!HasBegun(k)
    \/ \E p \in 1 .. Len(program) : Passed(p) /\ program[p].op = "receive" /\ program[p].of = k

\* The inductive invariant.
ExecutionInv == TypeInv /\ WaitedInv /\ BegunInv /\ SucceededInv

\* The program of an execution is orderly.
LEMMA ExecutedIsOrderly ==
  ASSUME TypeInv
  PROVE  /\ IsWorkflow(wf) /\ Supported(wf) /\ IsOrderly(program)
         /\ Len(program) \in Nat /\ DOMAIN program = 1 .. Len(program)
<1>1. IsWorkflow(wf) /\ Supported(wf)
  BY WorkflowsAssumption DEF TypeInv
<1>2. IsOrderly(program)
  BY <1>1, ProgramIsOrderly DEF TypeInv
<1> QED BY <1>1, <1>2, SequenceFacts DEF IsOrderly

\* Nothing is passed at first.
LEMMA InitExecution == Init => ExecutionInv
<1> SUFFICES ASSUME Init
             PROVE  ExecutionInv
  OBVIOUS
<1>1. wf \in Workflows /\ program = GenerateWorkflow(wf) /\ pc = 1
  BY DEF Init
<1>2. IsOrderly(program)
  BY <1>1, WorkflowsAssumption, ProgramIsOrderly
<1>3. Len(program) \in Nat
  BY <1>2, SequenceFacts DEF IsOrderly
<1>4. TypeInv
  <2>1. pc \in 1 .. (Len(program) + 1)
    BY <1>1, <1>3
  <2>2. IsSequence(begun)
    BY EmptyIsSequence DEF Init
  <2>3. arrived \in [Signals -> Nat]
    BY DEF Init
  <2> QED BY <1>1, <2>1, <2>2, <2>3 DEF TypeInv
<1>5. \A p : ~Passed(p)
  BY <1>1 DEF Passed
<1>6. DOMAIN begun = {} /\ succeeded = {}
  BY EmptyIsSequence DEF Init
<1> QED BY <1>4, <1>5, <1>6 DEF ExecutionInv, WaitedInv, BegunInv, SucceededInv

\* What is passed after a step that goes on.
LEMMA PassedNext ==
  ASSUME TypeInv, UNCHANGED <<wf, program>>, pc' = pc + 1, NEW p \in 1 .. Len(program)
  PROVE  Passed(p)' <=> Passed(p) \/ (p = pc /\ Passes(Statement))
<1>1. Passes(program[p])' <=> Passes(program[p])
  BY DEF Passes
<1>2. Len(program) \in Nat /\ pc \in Nat
  BY ExecutedIsOrderly DEF TypeInv
<1>3. p \in 1 .. (pc' - 1) <=> p \in 1 .. (pc - 1) \/ p = pc
  BY <1>2
<1> QED BY <1>1, <1>3 DEF Passed, Statement

\* What is passed after one that does not.
LEMMA PassedStays ==
  ASSUME UNCHANGED <<wf, program, pc>>, NEW p
  PROVE  Passed(p)' <=> Passed(p)
  BY DEF Passed, Passes

\* The invariant is kept by the steps that go on to the next statement.
LEMMA SkipUnlessGuardKeeps == ExecutionInv /\ SkipUnlessGuard => ExecutionInv'
<1> SUFFICES ASSUME ExecutionInv, SkipUnlessGuard
             PROVE  ExecutionInv'
  OBVIOUS
<1> USE DEF ExecutionInv
<1>1. UNCHANGED <<wf, program, begun, succeeded, arrived>> /\ pc' = pc + 1 /\ pc \in DOMAIN program /\ ~Passes(Statement)
  BY DEF SkipUnlessGuard
<1>2. \A p \in 1 .. Len(program) : Passed(p)' <=> Passed(p)
  BY <1>1, PassedNext
<1>3. TypeInv'
  BY <1>1, ExecutedIsOrderly DEF TypeInv
<1>4. \A k : Promise!HasBegun(k)' <=> Promise!HasBegun(k)
  BY <1>1 DEF Promise!HasBegun
<1>5. WaitedInv'
  BY <1>1, <1>2 DEF WaitedInv
<1>6. BegunInv'
  BY <1>1, <1>2, <1>4 DEF BegunInv
<1>7. SucceededInv'
  BY <1>1, <1>2, <1>4 DEF SucceededInv
<1> QED BY <1>3, <1>5, <1>6, <1>7

\* One more has begun.
LEMMA ExecuteActivityKeeps == ExecutionInv /\ ExecuteActivity => ExecutionInv'
<1> SUFFICES ASSUME ExecutionInv, ExecuteActivity
             PROVE  ExecutionInv'
  OBVIOUS
<1> USE DEF ExecutionInv
<1>1. /\ UNCHANGED <<wf, program, succeeded, arrived>> /\ pc' = pc + 1 /\ pc \in DOMAIN program
      /\ Passes(Statement) /\ Statement.op = "start" /\ begun' = Append(begun, Statement.of)
  BY DEF ExecuteActivity, At
<1>2. \A p \in 1 .. Len(program) : Passed(p)' <=> Passed(p) \/ p = pc
  BY <1>1, PassedNext
<1>3. PICK n \in Nat : n = Len(begun) /\ DOMAIN begun = 1 .. n
  BY SequenceFacts DEF TypeInv
<1>4. /\ IsSequence(begun') /\ DOMAIN begun' = 1 .. n + 1
      /\ \A b \in 1 .. n : begun'[b] = begun[b]
      /\ begun'[n + 1] = Statement.of
  <2>1. PICK s : s = begun' /\ s = Append(begun, Statement.of)
    BY <1>1
  <2>2. IsSequence(begun)
    BY DEF TypeInv
  <2>3. /\ IsSequence(s) /\ Len(s) = n + 1
        /\ \A b \in 1 .. n : s[b] = begun[b]
        /\ s[n + 1] = Statement.of
    BY <1>3, <2>1, <2>2, AppendFacts
  <2>4. DOMAIN s = 1 .. n + 1
    BY <2>3, SequenceFacts
  <2> QED BY <2>1, <2>3, <2>4
<1>5. TypeInv'
  BY <1>1, <1>4, ExecutedIsOrderly DEF TypeInv
<1>6. \A b \in 1 .. n + 1 : b \in 1 .. n \/ b = n + 1
  BY <1>3
<1>7. 1 .. n \subseteq 1 .. n + 1 /\ n + 1 \in 1 .. n + 1
  BY <1>3
<1>8. \A k : Promise!HasBegun(k)' <=> Promise!HasBegun(k) \/ k = Statement.of
  BY <1>3, <1>4, <1>6, <1>7 DEF Promise!HasBegun
<1>9. pc \in 1 .. Len(program) /\ program[pc] = Statement
  BY <1>1, ExecutedIsOrderly DEF Statement
<1>10. WaitedInv'
  BY <1>1, <1>2, <1>9 DEF WaitedInv
<1>11. BegunInv'
  <2>1. \A p \in 1 .. Len(program) : Passed(p)' /\ program[p].op = "start" => Promise!HasBegun(program[p].of)'
    BY <1>1, <1>2, <1>8, <1>9 DEF BegunInv
  <2>2. \A b \in 1 .. n + 1 : \E p \in 1 .. Len(program) :
          Passed(p)' /\ program[p].op = "start" /\ program[p].of = begun'[b]
    BY <1>1, <1>2, <1>3, <1>4, <1>6, <1>9 DEF BegunInv
  <2> QED BY <1>1, <1>4, <2>1, <2>2 DEF BegunInv
<1>12. SucceededInv'
  BY <1>1, <1>2, <1>8 DEF SucceededInv
<1> QED BY <1>5, <1>10, <1>11, <1>12

\* What is waited for has succeeded.
LEMMA GetResultKeeps == ExecutionInv /\ GetResult => ExecutionInv'
<1> SUFFICES ASSUME ExecutionInv, GetResult
             PROVE  ExecutionInv'
  OBVIOUS
<1> USE DEF ExecutionInv
<1>1. /\ UNCHANGED <<wf, program, begun, succeeded, arrived>> /\ pc' = pc + 1 /\ pc \in DOMAIN program
      /\ Statement.op = "get" /\ Statement.of \in succeeded
  BY DEF GetResult, At
<1>2. \A p \in 1 .. Len(program) : /\ Passed(p)' => Passed(p) \/ p = pc
                                   /\ Passed(p) => Passed(p)'
  BY <1>1, PassedNext
<1>3. TypeInv'
  BY <1>1, ExecutedIsOrderly DEF TypeInv
<1>4. \A k : Promise!HasBegun(k)' <=> Promise!HasBegun(k)
  BY <1>1 DEF Promise!HasBegun
<1>5. program[pc] = Statement
  BY DEF Statement
<1>6. WaitedInv'
  BY <1>1, <1>2, <1>5 DEF WaitedInv
<1>7. BegunInv'
  BY <1>1, <1>2, <1>4, <1>5 DEF BegunInv
<1>8. SucceededInv'
  BY <1>1, <1>2, <1>4 DEF SucceededInv
<1> QED BY <1>3, <1>6, <1>7, <1>8

\* One more signal is received.
LEMMA ReceiveSignalKeeps == ExecutionInv /\ ReceiveSignal => ExecutionInv'
<1> SUFFICES ASSUME ExecutionInv, ReceiveSignal
             PROVE  ExecutionInv'
  OBVIOUS
<1> USE DEF ExecutionInv
<1>1. /\ UNCHANGED <<wf, program, begun, arrived>> /\ pc' = pc + 1 /\ pc \in DOMAIN program
      /\ Passes(Statement) /\ Statement.op = "receive" /\ succeeded' = succeeded \cup {Statement.of}
  BY DEF ReceiveSignal, At
<1>2. \A p \in 1 .. Len(program) : Passed(p)' <=> Passed(p) \/ p = pc
  BY <1>1, PassedNext
<1>3. TypeInv'
  BY <1>1, ExecutedIsOrderly DEF TypeInv
<1>4. \A k : Promise!HasBegun(k)' <=> Promise!HasBegun(k)
  BY <1>1 DEF Promise!HasBegun
<1>5. pc \in 1 .. Len(program) /\ program[pc] = Statement
  BY <1>1, ExecutedIsOrderly DEF Statement
<1>6. WaitedInv'
  BY <1>1, <1>2, <1>5 DEF WaitedInv
<1>7. BegunInv'
  BY <1>1, <1>2, <1>4, <1>5 DEF BegunInv
<1>8. SucceededInv'
  BY <1>1, <1>2, <1>4, <1>5 DEF SucceededInv
<1> QED BY <1>3, <1>6, <1>7, <1>8

\* Steps of the server, and those that return.
LEMMA OthersKeep ==
  ASSUME ExecutionInv, UNCHANGED <<wf, program, pc, begun>>, succeeded \subseteq succeeded',
         \A k \in succeeded' : k \in succeeded \/ Promise!HasBegun(k), arrived' \in [Signals -> Nat]
  PROVE  ExecutionInv'
<1> USE DEF ExecutionInv
<1>1. \A p : Passed(p)' <=> Passed(p)
  BY PassedStays
<1>2. TypeInv'
  BY DEF TypeInv
<1>3. \A k : Promise!HasBegun(k)' <=> Promise!HasBegun(k)
  BY DEF Promise!HasBegun
<1>4. WaitedInv'
  BY <1>1 DEF WaitedInv
<1>5. BegunInv'
  BY <1>1, <1>3 DEF BegunInv
<1>6. SucceededInv'
  BY <1>1, <1>3 DEF SucceededInv
<1> QED BY <1>2, <1>4, <1>5, <1>6

\* What the server runs has been begun.
LEMMA RunningIsBegun ==
  ASSUME NEW k \in Running
  PROVE  Promise!HasBegun(k) /\ k \notin succeeded \cup failed
  BY DEF Running, ToSet, Promise!HasBegun

\* All steps keep the invariant.
LEMMA NextExecution == ExecutionInv /\ [Next]_vars => ExecutionInv'
<1> SUFFICES ASSUME ExecutionInv, [Next]_vars
             PROVE  ExecutionInv'
  OBVIOUS
<1>1. arrived \in [Signals -> Nat]
  BY DEF ExecutionInv, TypeInv
<1>2. CASE SkipUnlessGuard
  BY <1>2, SkipUnlessGuardKeeps
<1>3. CASE ExecuteActivity
  BY <1>3, ExecuteActivityKeeps
<1>4. CASE GetResult
  BY <1>4, GetResultKeeps
<1>5. CASE ReceiveSignal
  BY <1>5, ReceiveSignalKeeps
<1>6. CASE ReturnError
  BY <1>1, <1>6, OthersKeep DEF ReturnError
<1>7. CASE ReturnNil
  BY <1>1, <1>7, OthersKeep DEF ReturnNil
<1>8. CASE End
  BY <1>1, <1>8, RunningIsBegun, OthersKeep DEF End
<1>9. CASE Send
  <2>1. arrived' \in [Signals -> Nat]
    BY <1>1, <1>9 DEF Send
  <2> QED BY <1>9, <2>1, OthersKeep DEF Send
<1>10. CASE UNCHANGED vars
  BY <1>1, <1>10, OthersKeep DEF vars
<1> QED BY <1>2, <1>3, <1>4, <1>5, <1>6, <1>7, <1>8, <1>9, <1>10 DEF Next, Step

\* Whatever the workflow and the server do, what is begun and what has
\* succeeded is what the statements passed so far say.
THEOREM ExecutionIsTracked == Spec => []ExecutionInv
  BY InitExecution, NextExecution, PTL DEF Spec
-----------------------------------------------------------------------------
(***************************************************************************)
(* Its execution is one of the specification.                              *)
(***************************************************************************)
\* Statements and their occurrences.
LEMMA StatementFacts ==
  ASSUME IsOrderly(program), NEW p \in 1 .. Len(program)
  PROVE  /\ Passes(program[p]) <=> program[p].of \in Promise!Due
         /\ program[p].op = "receive" <=> Promise!Item(program[p].of).kind = "signal"
         /\ program[p].op \in {"start", "get", "receive"}
<1>1. IsStatement(program[p], Placed)
  BY DEF IsOrderly
<1>2. PICK x, n : /\ x \in Placed /\ n \in 1 .. Times(x) /\ program[p].of = <<x, n>>
                  /\ program[p].op = "receive" <=> wf.body[x].kind = "signal"
                  /\ Passes(program[p]) <=> Promise!Wanted(wf.body[x])
  BY <1>1 DEF IsStatement
<1>a. PICK k : k = program[p].of
  OBVIOUS
<1>b. k = <<x, n>>
  BY <1>2, <1>a
<1>c. k[1] = x
  BY <1>b
<1>3. k = program[p].of /\ k = <<x, n>> /\ k[1] = x /\ Promise!Item(k) = wf.body[x]
  BY <1>a, <1>b, <1>c DEF Promise!Item
<1>4. Promise!Wanted(wf.body[x]) <=> k \in Promise!Due
  <2>1. x \in DOMAIN wf.body
    BY <1>2 DEF Placed, OfKind
  <2>2. k \in {x} \X (1 .. Promise!Times(wf.body[x]))
    BY <1>2, <1>3 DEF Times
  <2>3. k \in UNION {{i} \X (1 .. Promise!Times(wf.body[i])) : i \in DOMAIN wf.body}
    BY <2>1, <2>2
  <2> QED BY <1>3, <2>3 DEF Promise!Due
<1>5. program[p].op \in {"start", "get", "receive"}
  BY <1>1 DEF IsStatement
<1> QED BY <1>2, <1>3, <1>4, <1>5

\* When an execution is at a statement that begins an occurrence, all that
\* has to come before has succeeded.
LEMMA BeforeHasSucceeded ==
  ASSUME ExecutionInv, pc \in 1 .. Len(program), NEW k \in Promise!Due, Begins(program[pc], k)
  PROVE  Promise!Before(k) \subseteq succeeded
<1> SUFFICES ASSUME NEW m \in Promise!Before(k)
             PROVE  m \in succeeded
  OBVIOUS
<1>1. IsOrderly(program) /\ Len(program) \in Nat
  BY ExecutedIsOrderly DEF ExecutionInv
<1>2. PICK q \in 1 .. Len(program) : q < pc /\ Waits(program[q], m)
  BY <1>1 DEF IsOrderly
<1>3. m \in Promise!Due
  BY DEF Promise!Before
<1>4. program[q].of = m /\ program[q].op \in {"get", "receive"}
  BY <1>2 DEF Waits
<1>5. Passes(program[q])
  BY <1>1, <1>3, <1>4, StatementFacts
<1>6. q \in 1 .. (pc - 1)
  BY <1>1, <1>2
<1> QED BY <1>4, <1>5, <1>6 DEF ExecutionInv, WaitedInv, Passed

\* Nothing is begun or received twice.
LEMMA PassedOnce ==
  ASSUME ExecutionInv, pc \in 1 .. Len(program), NEW p \in 1 .. Len(program), Passed(p)
  PROVE  ~(program[p].op = program[pc].op /\ program[p].of = program[pc].of)
<1>1. IsOrderly(program) /\ Len(program) \in Nat
  BY ExecutedIsOrderly DEF ExecutionInv
<1>2. p # pc
  BY <1>1 DEF Passed
<1> QED BY <1>1, <1>2 DEF IsOrderly

\* ExecuteActivity begins what is ready.
LEMMA ActivityIsBegun ==
  ASSUME ExecutionInv, ExecuteActivity
  PROVE  \E k \in Promise!Due : Promise!Begin(k)
<1>1. IsOrderly(program) /\ Len(program) \in Nat /\ DOMAIN program = 1 .. Len(program)
  BY ExecutedIsOrderly DEF ExecutionInv
<1>2. /\ outcome = "running" /\ pc \in 1 .. Len(program) /\ program[pc].op = "start" /\ Passes(program[pc])
      /\ begun' = Append(begun, program[pc].of)
      /\ UNCHANGED <<wf, succeeded, failed, arrived, outcome>>
  BY <1>1 DEF ExecuteActivity, At, Statement
<1>3. PICK k : k = program[pc].of /\ k \in Promise!Due /\ Promise!Item(k).kind # "signal"
  BY <1>1, <1>2, StatementFacts
<1>4. Promise!Before(k) \subseteq succeeded
  BY <1>2, <1>3, BeforeHasSucceeded DEF Begins
<1>5. ~Promise!HasBegun(k)
  <2>1. SUFFICES ASSUME NEW b \in DOMAIN begun, begun[b] = k
                 PROVE  FALSE
    BY DEF Promise!HasBegun
  <2>2. PICK p \in 1 .. Len(program) : Passed(p) /\ program[p].op = "start" /\ program[p].of = k
    BY <2>1 DEF ExecutionInv, BegunInv
  <2> QED BY <1>2, <1>3, <2>2, PassedOnce
<1> QED BY <1>2, <1>3, <1>4, <1>5 DEF Promise!Begin, Promise!Ready

\* The specification's sets have the size that they have here.
LEMMA SameCardinality ==
  ASSUME NEW S
  PROVE  Promise!Cardinality(S) = Cardinality(S)
  BY DEF Promise!Cardinality, Cardinality

\* There are no more signals accepted than received.
LEMMA AcceptedAreReceived ==
  ASSUME ExecutionInv, pc \in 1 .. Len(program), NEW s \in Signals, Unreceived(s) > 0
  PROVE  Cardinality(Promise!Accepts(s)) < arrived[s]
<1>1. IsOrderly(program) /\ Len(program) \in Nat /\ pc \in Nat
  BY ExecutedIsOrderly DEF ExecutionInv, TypeInv
<1>2. PICK R : R = {j \in 1 .. (pc - 1) : program[j].op = "receive" /\ wf.body[program[j].of[1]].name = s}
  OBVIOUS
<1>3. PICK I : I = {program[j].of : j \in R}
  OBVIOUS
<1>4. Promise!Accepts(s) \subseteq I
  <2> SUFFICES ASSUME NEW k \in Promise!Accepts(s)
               PROVE  k \in I
    OBVIOUS
  <2>1. k \in succeeded /\ Promise!Item(k).kind = "signal" /\ Promise!Item(k).name = s
    BY DEF Promise!Accepts
  <2>2. ~Promise!HasBegun(k)
    <3>1. SUFFICES ASSUME NEW b \in DOMAIN begun, begun[b] = k
                   PROVE  FALSE
      BY DEF Promise!HasBegun
    <3>2. PICK p \in 1 .. Len(program) : program[p].op = "start" /\ program[p].of = k
      BY <3>1 DEF ExecutionInv, BegunInv
    <3> QED BY <1>1, <2>1, <3>2, StatementFacts
  <2>3. PICK p \in 1 .. Len(program) : Passed(p) /\ program[p].op = "receive" /\ program[p].of = k
    BY <2>1, <2>2 DEF ExecutionInv, SucceededInv
  <2>4. p \in R
    BY <1>2, <2>1, <2>3 DEF Passed, Promise!Item
  <2> QED BY <1>3, <2>3, <2>4
<1>5. IsFiniteSet(R)
  <2>1. IsFiniteSet(1 .. (pc - 1))
    <3>1. 1 \in Int /\ pc - 1 \in Int
      BY <1>1
    <3> QED BY <3>1, FS_Interval
  <2>2. R \subseteq 1 .. (pc - 1)
    BY <1>2
  <2> QED BY <2>1, <2>2, FS_Subset
<1>6. IsFiniteSet(I) /\ Cardinality(I) <= Cardinality(R)
  <2>1. PICK f : f = [j \in R |-> program[j].of]
    OBVIOUS
  <2>2. f \in Surjection(R, I)
    BY <1>3, <2>1 DEF Surjection
  <2> QED BY <1>5, <2>2, FS_Surjection
<1>7. Cardinality(Promise!Accepts(s)) <= Cardinality(I) /\ IsFiniteSet(Promise!Accepts(s))
  BY <1>4, <1>6, FS_Subset
<1>8. Cardinality(R) \in Nat /\ Cardinality(I) \in Nat /\ Cardinality(Promise!Accepts(s)) \in Nat
  BY <1>5, <1>6, <1>7, FS_CardinalityType
<1>9. arrived[s] \in Nat
  BY DEF ExecutionInv, TypeInv
<1>10. arrived[s] - Cardinality(R) > 0
  BY <1>2 DEF Unreceived
<1> QED BY <1>6, <1>7, <1>8, <1>9, <1>10

\* A receive accepts a signal that is ready.
LEMMA SignalIsAccepted ==
  ASSUME ExecutionInv, ReceiveSignal
  PROVE  \E k \in Promise!Due : Promise!Accept(k)
<1>1. IsOrderly(program) /\ Len(program) \in Nat /\ DOMAIN program = 1 .. Len(program) /\ IsWorkflow(wf)
  BY ExecutedIsOrderly DEF ExecutionInv
<1>2. /\ outcome = "running" /\ pc \in 1 .. Len(program) /\ program[pc].op = "receive" /\ Passes(program[pc])
      /\ Unreceived(wf.body[program[pc].of[1]].name) > 0
      /\ succeeded' = succeeded \cup {program[pc].of}
      /\ UNCHANGED <<wf, begun, failed, arrived, outcome>>
  BY <1>1 DEF ReceiveSignal, At, Statement
<1>3. PICK k : /\ k = program[pc].of /\ k \in Promise!Due /\ Promise!Item(k).kind = "signal"
               /\ Promise!Item(k) = wf.body[program[pc].of[1]]
  BY <1>1, <1>2, StatementFacts DEF Promise!Item
<1>4. Promise!Before(k) \subseteq succeeded
  BY <1>2, <1>3, BeforeHasSucceeded DEF Begins
<1>5. k \notin succeeded
  <2> SUFFICES ASSUME k \in succeeded
               PROVE  FALSE
    OBVIOUS
  <2>1. ~Promise!HasBegun(k)
    <3>1. SUFFICES ASSUME NEW b \in DOMAIN begun, begun[b] = k
                   PROVE  FALSE
      BY DEF Promise!HasBegun
    <3>2. PICK p \in 1 .. Len(program) : program[p].op = "start" /\ program[p].of = k
      BY <3>1 DEF ExecutionInv, BegunInv
    <3> QED BY <1>1, <1>3, <3>2, StatementFacts
  <2>2. PICK p \in 1 .. Len(program) : Passed(p) /\ program[p].op = "receive" /\ program[p].of = k
    BY <2>1 DEF ExecutionInv, SucceededInv
  <2> QED BY <1>2, <1>3, <2>2, PassedOnce
<1>6. PICK s : s = Promise!Item(k).name /\ s \in Signals
  <2>1. PICK x, n : x \in Placed /\ k = <<x, n>> /\ k[1] = x
    BY <1>3, DueIs
  <2>2. x \in OfKind(wf, {"signal"})
    BY <1>3, <2>1 DEF OfKind, Placed, Promise!Item
  <2> QED BY <1>1, <1>3, <2>1, <2>2 DEF IsWorkflow, Promise!Item
<1>7. Cardinality(Promise!Accepts(s)) < arrived[s]
  BY <1>2, <1>3, <1>6, AcceptedAreReceived
<1>8. Promise!Accept(k)
  <2>1. Promise!Ready(k)
    BY <1>2, <1>3, <1>4 DEF Promise!Ready
  <2>2. succeeded' = succeeded \cup {k}
    BY <1>2, <1>3
  <2>3. Cardinality(Promise!Accepts(Promise!Item(k).name)) < arrived[Promise!Item(k).name]
    BY <1>6, <1>7
  <2> QED BY <1>2, <1>3, <1>5, <2>1, <2>2, <2>3, SameCardinality DEF Promise!Accept
<1> QED BY <1>3, <1>8

\* The function returns nil when all that is due has succeeded.
LEMMA ReturnIsCompletion ==
  ASSUME ExecutionInv, ReturnNil
  PROVE  Promise!Complete
<1>1. IsOrderly(program) /\ Len(program) \in Nat
  BY ExecutedIsOrderly DEF ExecutionInv
<1>2. Promise!Due \subseteq succeeded
  <2> SUFFICES ASSUME NEW k \in Promise!Due
               PROVE  k \in succeeded
    OBVIOUS
  <2>1. PICK x, n : x \in Placed /\ n \in 1 .. Times(x) /\ k = <<x, n>>
    BY DueIs
  <2>2. PICK p \in 1 .. Len(program) : Waits(program[p], k)
    BY <1>1, <2>1 DEF IsOrderly
  <2>3. Passes(program[p])
    BY <1>1, <2>2, StatementFacts DEF Waits
  <2>4. p \in 1 .. (pc - 1)
    BY <1>1 DEF ReturnNil
  <2> QED BY <2>2, <2>3, <2>4 DEF ExecutionInv, WaitedInv, Passed, Waits
<1> QED BY <1>2 DEF ReturnNil, Promise!Complete

\* The server ends what has begun.
LEMMA EndIsEnd ==
  ASSUME ExecutionInv, End
  PROVE  \E k \in Promise!Due : Promise!End(k)
<1>1. IsOrderly(program)
  BY ExecutedIsOrderly DEF ExecutionInv
<1>2. PICK k \in Running : \/ succeeded' = succeeded \cup {k} /\ UNCHANGED failed
                           \/ failed' = failed \cup {k} /\ UNCHANGED succeeded
  BY DEF End
<1>3. Promise!HasBegun(k) /\ k \notin succeeded \cup failed
  BY RunningIsBegun
<1>4. k \in Promise!Due
  <2>1. PICK p \in 1 .. Len(program) : Passed(p) /\ program[p].of = k
    BY <1>3 DEF ExecutionInv, BegunInv, Promise!HasBegun
  <2> QED BY <1>1, <2>1, StatementFacts DEF Passed
<1> QED BY <1>2, <1>3, <1>4 DEF End, Promise!End

\* Every step of an execution is one of the specification, or changes nothing
\* that it speaks of.
LEMMA StepRefines ==
  ASSUME ExecutionInv, [Next]_vars
  PROVE  [Promise!Next]_<<wf, begun, succeeded, failed, arrived, outcome>>
<1>1. CASE SkipUnlessGuard
  BY <1>1 DEF SkipUnlessGuard
<1>2. CASE ExecuteActivity
  BY <1>2, ActivityIsBegun DEF Promise!Next
<1>3. CASE GetResult
  BY <1>3 DEF GetResult
<1>4. CASE ReceiveSignal
  BY <1>4, SignalIsAccepted DEF Promise!Next
<1>5. CASE ReturnError
  <2>1. Promise!Fail
    BY <1>5 DEF ReturnError, At, Promise!Fail
  <2> QED BY <2>1 DEF Promise!Next
<1>6. CASE ReturnNil
  BY <1>6, ReturnIsCompletion DEF Promise!Next
<1>7. CASE End
  BY <1>7, EndIsEnd DEF Promise!Next
<1>8. CASE Send
  <2>1. \E s \in Signals : Promise!Send(s)
    BY <1>8 DEF Send, Promise!Send
  <2> QED BY <2>1 DEF Promise!Next
<1>9. CASE UNCHANGED vars
  BY <1>9 DEF vars
<1> QED BY <1>1, <1>2, <1>3, <1>4, <1>5, <1>6, <1>7, <1>8, <1>9 DEF Next, Step

\* For every supported workflow: what its generated function does is what the
\* model asks for (GenerateWorkflows, gen/temporal/workflows.go).
THEOREM WorkflowIsImplemented == Spec => Implements
<1>1. Init => Promise!Init
  BY DEF Init, Promise!Init
<1>2. ExecutionInv /\ [Next]_vars => [Promise!Next]_<<wf, begun, succeeded, failed, arrived, outcome>>
  BY StepRefines
<1> QED BY <1>1, <1>2, ExecutionIsTracked, PTL DEF Spec, Implements, Promise!Spec

\* Branches are those of the fork.
LEMMA ParallelAreBranches ==
  ASSUME IsWorkflow(wf), NEW i \in DOMAIN wf.body, NEW j \in DOMAIN wf.body, i < j, Promise!Parallel(i, j),
         wf.body[i].kind = "step", wf.body[j].kind = "step"
  PROVE  i \in Branches /\ j \in Branches
<1>1. PICK l \in Nat : DOMAIN wf.body = 1 .. l /\ l = Len(wf.body)
  BY SequenceFacts DEF IsWorkflow
<1>2. PICK f \in 1 .. (i - 1), g \in (j + 1) .. Len(wf.body) : wf.body[f].kind = "fork" /\ wf.body[g].kind = "join"
  BY DEF Promise!Parallel
<1>3. f \in 1 .. l /\ g \in 1 .. l /\ f < i /\ f < j /\ i < g /\ j < g
  BY <1>1
<1>4. f \in OfKind(wf, {"fork"}) /\ g \in OfKind(wf, {"join"})
  BY <1>1, <1>2, <1>3 DEF OfKind
<1> QED BY <1>3, <1>4 DEF Branches, InForkJoin, OfKind

\* By the time one is waited for.
LEMMA BranchesHaveBegun == ExecutionInv => ParallelStepsRunTogether
<1> SUFFICES ASSUME ExecutionInv, At("get"), NEW i \in DOMAIN wf.body, NEW j \in DOMAIN wf.body,
                    i < j, Promise!Parallel(i, j), wf.body[i].kind = "step", wf.body[j].kind = "step",
                    Statement.of \in {<<i, 1>>, <<j, 1>>}
             PROVE  {<<i, 1>>, <<j, 1>>} \subseteq ToSet(begun)
  BY DEF ParallelStepsRunTogether
<1>1. IsOrderly(program) /\ IsWorkflow(wf) /\ Supported(wf) /\ Len(program) \in Nat /\ DOMAIN program = 1 .. Len(program)
  BY ExecutedIsOrderly DEF ExecutionInv
<1>2. pc \in 1 .. Len(program) /\ Statement = program[pc] /\ Statement.op = "get"
  BY <1>1 DEF At, Statement
<1>3. i \in Branches /\ j \in Branches
  BY <1>1, ParallelAreBranches
<1>4. PICK x \in Branches : Waits(program[pc], <<x, 1>>)
  BY <1>2, <1>3 DEF Waits
<1>5. ASSUME NEW y \in Branches
      PROVE  <<y, 1>> \in ToSet(begun)
  <2>1. PICK q \in 1 .. Len(program) : q < pc /\ Begins(program[q], <<y, 1>>)
    BY <1>1, <1>2, <1>4 DEF IsOrderly
  <2>a. PICK k : k = <<y, 1>>
    OBVIOUS
  <2>2. k = <<y, 1>> /\ k[1] = y
    BY <2>a
  <2>3. program[q].of = k /\ program[q].op \in {"start", "receive"}
    BY <2>1, <2>2 DEF Begins
  <2>4. y \in Placed /\ wf.body[y].kind = "step" /\ InForkJoin(wf, y)
    BY DEF Branches, Placed, OfKind
  <2>5. program[q].op = "start"
    BY <1>1, <2>2, <2>3, <2>4, StatementFacts DEF Promise!Item
  <2>6. Passes(program[q])
    <3>1. Promise!Wanted(wf.body[y])
      BY <1>1, <2>4, NoGuardNeeded
    <3>2. IsStatement(program[q], Placed)
      BY <1>1 DEF IsOrderly
    <3> QED BY <2>2, <2>3, <3>1, <3>2 DEF IsStatement
  <2>7. Promise!HasBegun(k)
    <3>1. q \in 1 .. (pc - 1)
      BY <1>1, <1>2, <2>1
    <3> QED BY <2>3, <2>5, <2>6, <3>1 DEF ExecutionInv, BegunInv, Passed
  <2> QED BY <2>2, <2>7 DEF Promise!HasBegun, ToSet
<1> QED BY <1>3, <1>5

\* The function never waits for an action step of a fork before it has begun
\* the others (emitParallel); it can wait for accepts and loops before that.
THEOREM ParallelStepsAreTogether == Spec => []ParallelStepsRunTogether
  BY ExecutionIsTracked, BranchesHaveBegun, PTL
=============================================================================
